---- MODULE Spec2Model ----
(***************************************************************************)
(* Swarm coordinator of snipara-server (src/services/swarm_coordinator.py) *)
(* as a state machine over its database tables.                            *)
(*                                                                         *)
(* Every coordinator function is an asyncio coroutine: each `await db...`  *)
(* is a suspension point at which another request may run.  A request in   *)
(* flight occupies a slot; one action of the model is the effect of one    *)
(* awaited query together with the Python code that runs until the next    *)
(* query is issued.  Values computed from datetime.now() before a query is *)
(* issued are therefore computed in the step that precedes the query.      *)
(***************************************************************************)
EXTENDS Integers, Sequences, FiniteSets, TLC

\* ---------------------------------------------------------------- bounds
MaxTime == 2          \* the clock runs from 0 to MaxTime
MaxTTL == 1           \* timeout_seconds arguments range over 1..MaxTTL
MaxClaimCalls == 3    \* requests begun in a run of SpecClaims
MaxAgentCalls == 3    \* requests begun in a run of SpecAgents
MaxGatewayCalls == 1  \* requests begun in a run of SpecGateway
MaxErrLen == 2        \* fragments of an exception text
MaxRpcCalls == 1      \* requests begun in a run of SpecTeamRpc
MaxRpcId == 2         \* JSON-RPC request ids
MaxBatch == 2         \* requests of a JSON-RPC batch
MaxStateCalls == 3    \* requests begun in a run of SpecState
MaxTaskCalls == 4     \* requests begun in a run of SpecTasks
MaxTasks == 2         \* rows of the task table
MaxDeps == 2          \* length of a depends_on list

Slots == {1, 2}       \* requests that can be in flight at the same time
Agents == {"A", "B"}  \* agent_id arguments
Resources == {"file:a"}
Priorities == {0, 1}     \* priority arguments (0..100 in the request model)
Keys == {"x"}            \* shared-state keys
TTLs == 1..MaxTTL

VARIABLES
    now,        \* datetime.now(UTC), in abstract ticks
    agents,     \* table SwarmAgent: sequence of rows, row id = index
    claims,     \* table ResourceClaim: sequence of rows, row id = index
    states,     \* table SharedState: sequence of rows, row id = index
    tasks,      \* table SwarmTask: sequence of rows, row id = index = creation order
    events,     \* table IntegratorWebhookEvent: sequence of rows, row id = index
    posts,      \* webhook POSTs sent so far: sequence of event ids
    docs,       \* table Document: set of rows [id, path, content, hash]
    index,      \* the engine's cached DocumentIndex, or NoIndex
    client,     \* db.py's global _client, or NoClient
    lock,       \* db.py's _lock: the slot holding it, or 0
    hashseed,   \* the salt of str.__hash__ in the running interpreter
    pc,         \* per slot: the query the request in flight issues next
    loc,        \* per slot: the coroutine's arguments and local variables
    res,        \* per slot: the dict returned by the slot's last call
    calls       \* number of requests begun so far

vars ==
    <<now, agents, claims, states, tasks, events, posts, docs, index,
      client, lock, hashseed, pc, loc, res, calls>>

\* _client is None.
NoClient == [id |-> 0, connected |-> FALSE]

\* No DocumentIndex is cached.
NoIndex == [built |-> FALSE]

NoLoc == [op |-> "none"]
NoRes == [op |-> "none"]

\* No request is in flight.
Quiet == \A s \in Slots : pc[s] = "idle"

\* A request begins in slot s, if fewer than max requests have begun.
Begin(s, max) ==
    /\ pc[s] = "idle"
    /\ calls < max
    /\ calls' = calls + 1

\* The coroutine of slot s moves to its next await with locals l.
Goto(s, label, l) ==
    /\ pc' = [pc EXCEPT ![s] = label]
    /\ loc' = [loc EXCEPT ![s] = l]
    /\ res' = [res EXCEPT ![s] = NoRes]

\* The coroutine of slot s returns dict r.
Return(s, r) ==
    /\ pc' = [pc EXCEPT ![s] = "idle"]
    /\ loc' = [loc EXCEPT ![s] = NoLoc]
    /\ res' = [res EXCEPT ![s] = r]

\* ------------------------------------------------------------ SwarmAgent
\* db.swarmagent.find_first(where={swarmId, agentId, isActive: True}):
\* the rows the query may return (no ORDER BY: any matching row).
ActiveAgentRows(agent_id) ==
    {a \in DOMAIN agents : agents[a].agentId = agent_id /\ agents[a].isActive}

\* db.resourceclaim.find_first(where={swarmId, resourceType, resourceId,
\* status: "ACTIVE"}): the rows the query may return.
ActiveClaimRows(r) ==
    {c \in DOMAIN claims : claims[c].resource = r /\ claims[c].status = "ACTIVE"}

\* leave_swarm -------------------------------------------------------------
LeaveFind(s) ==
    /\ Begin(s, MaxClaimCalls)
    /\ \E agent_id \in Agents :
         LET M == ActiveAgentRows(agent_id) IN
         IF M = {}
         THEN Return(s, [op |-> "leave", success |-> FALSE,
                         error |-> "Agent not found in swarm"])
         ELSE \E a \in M : Goto(s, "leave_deactivate", [op |-> "leave", agent |-> a])
    /\ UNCHANGED <<client, lock, hashseed, events, posts, docs, index, tasks, states, now, agents, claims>>

LeaveDeactivate(s) ==
    /\ pc[s] = "leave_deactivate"
    /\ agents' = [agents EXCEPT ![loc[s].agent].isActive = FALSE]
    /\ Goto(s, "leave_release", loc[s])
    /\ UNCHANGED <<client, lock, hashseed, events, posts, docs, index, tasks, states, now, claims, calls>>

\* update_many(where={agentId: agent.id, status: "ACTIVE"}, status=RELEASED)
LeaveRelease(s) ==
    /\ pc[s] = "leave_release"
    /\ claims' = [c \in DOMAIN claims |->
                    IF claims[c].agentId = loc[s].agent /\ claims[c].status = "ACTIVE"
                    THEN [claims[c] EXCEPT !.status = "RELEASED"]
                    ELSE claims[c]]
    /\ Return(s, [op |-> "leave", success |-> TRUE])
    /\ UNCHANGED <<client, lock, hashseed, events, posts, docs, index, tasks, states, now, agents, calls>>

\* acquire_claim -----------------------------------------------------------
AcquireFindAgent(s) ==
    /\ Begin(s, MaxClaimCalls)
    /\ \E agent_id \in Agents, r \in Resources, ttl \in TTLs :
         LET M == ActiveAgentRows(agent_id) IN
         IF M = {}
         THEN Return(s, [op |-> "acquire", success |-> FALSE,
                         error |-> "Agent not in swarm", claim_id |-> 0])
         ELSE \E a \in M :
                Goto(s, "acq_find", [op |-> "acquire", agent |-> a, resource |-> r,
                                     timeout_seconds |-> ttl])
    /\ UNCHANGED <<client, lock, hashseed, events, posts, docs, index, tasks, states, now, agents, claims>>

\* acquire_claim without the lazy expiry: extension by the holder, or
\* refusal.
AcquireOnExistingNoExpiry(s, c) ==
    IF claims[c].agentId = loc[s].agent
    THEN Goto(s, "acq_extend",
              loc[s] @@ [existing |-> c, new_expires |-> now + loc[s].timeout_seconds])
    ELSE Return(s, [op |-> "acquire", success |-> FALSE,
                    error |-> "Resource already claimed by another agent",
                    claim_id |-> 0, claimed_by |-> claims[c].agentId])

\* The branch acquire_claim takes on the ACTIVE row c it found: lazy expiry,
\* extension by the holder, or refusal.
AcquireOnExisting(s, c) ==
    IF claims[c].expiresAt < now
    THEN Goto(s, "acq_expire", loc[s] @@ [existing |-> c])
    ELSE IF claims[c].agentId = loc[s].agent
    THEN Goto(s, "acq_extend",
              loc[s] @@ [existing |-> c, new_expires |-> now + loc[s].timeout_seconds])
    ELSE Return(s, [op |-> "acquire", success |-> FALSE,
                    error |-> "Resource already claimed by another agent",
                    claim_id |-> 0, claimed_by |-> claims[c].agentId])

AcquireFindExisting(s) ==
    /\ pc[s] = "acq_find"
    /\ LET M == ActiveClaimRows(loc[s].resource) IN
       IF M = {}
       THEN Goto(s, "acq_create", loc[s] @@ [expires_at |-> now + loc[s].timeout_seconds])
       ELSE \E c \in M : AcquireOnExisting(s, c)
    /\ UNCHANGED <<client, lock, hashseed, events, posts, docs, index, tasks, states, now, agents, claims, calls>>

AcquireExpire(s) ==
    /\ pc[s] = "acq_expire"
    /\ claims' = [claims EXCEPT ![loc[s].existing].status = "EXPIRED"]
    /\ Goto(s, "acq_create", loc[s] @@ [expires_at |-> now + loc[s].timeout_seconds])
    /\ UNCHANGED <<client, lock, hashseed, events, posts, docs, index, tasks, states, now, agents, calls>>

AcquireExtend(s) ==
    /\ pc[s] = "acq_extend"
    /\ claims' = [claims EXCEPT ![loc[s].existing].expiresAt = loc[s].new_expires]
    /\ Return(s, [op |-> "acquire", success |-> TRUE, claim_id |-> loc[s].existing,
                  extended |-> TRUE])
    /\ UNCHANGED <<client, lock, hashseed, events, posts, docs, index, tasks, states, now, agents, calls>>

AcquireCreate(s) ==
    /\ pc[s] = "acq_create"
    /\ claims' = Append(claims, [agentId |-> loc[s].agent, resource |-> loc[s].resource,
                                 status |-> "ACTIVE", expiresAt |-> loc[s].expires_at])
    /\ Return(s, [op |-> "acquire", success |-> TRUE, claim_id |-> Len(claims) + 1,
                  extended |-> FALSE])
    /\ UNCHANGED <<client, lock, hashseed, events, posts, docs, index, tasks, states, now, agents, calls>>

\* release_claim -----------------------------------------------------------
\* release_claim whose where-clause lacks the agentId filter.
ReleaseWhereAnyAgent(l, c) ==
    /\ claims[c].status = "ACTIVE"
    /\ IF l.claim_id # 0 THEN c = l.claim_id ELSE claims[c].resource = l.resource

\* The where-clause built at lines 425-435, as a test of row c
\* (claim_id = 0 and resource = "" stand for None).
ReleaseWhere(l, c) ==
    /\ claims[c].agentId = l.agent
    /\ claims[c].status = "ACTIVE"
    /\ IF l.claim_id # 0 THEN c = l.claim_id ELSE claims[c].resource = l.resource

ReleaseFindAgent(s) ==
    /\ Begin(s, MaxClaimCalls)
    /\ \E agent_id \in Agents, claim_id \in 0..Len(claims), r \in Resources \cup {""} :
         /\ claim_id # 0 => r = ""     \* with a claim_id the resource is never read
         /\ LET M == ActiveAgentRows(agent_id) IN
            IF M = {}
            THEN Return(s, [op |-> "release", success |-> FALSE,
                            error |-> "Agent not in swarm"])
            ELSE IF claim_id = 0 /\ r = ""
            THEN Return(s, [op |-> "release", success |-> FALSE,
                            error |-> "Must provide claim_id or resource_type+resource_id"])
            ELSE \E a \in M :
                   Goto(s, "rel_find", [op |-> "release", agent |-> a,
                                        claim_id |-> claim_id, resource |-> r])
    /\ UNCHANGED <<client, lock, hashseed, events, posts, docs, index, tasks, states, now, agents, claims>>

ReleaseFindClaim(s) ==
    /\ pc[s] = "rel_find"
    /\ LET M == {c \in DOMAIN claims : ReleaseWhere(loc[s], c)} IN
       IF M = {}
       THEN Return(s, [op |-> "release", success |-> FALSE,
                       error |-> "Claim not found or not owned by agent",
                       agent |-> loc[s].agent])
       ELSE \E c \in M : Goto(s, "rel_update", loc[s] @@ [claim |-> c])
    /\ UNCHANGED <<client, lock, hashseed, events, posts, docs, index, tasks, states, now, agents, claims, calls>>

\* release_claim that reports success without writing the row.
ReleaseUpdateNoWrite(s) ==
    /\ pc[s] = "rel_update"
    /\ Return(s, [op |-> "release", success |-> TRUE, claim_id |-> loc[s].claim,
                  agent |-> loc[s].agent])
    /\ UNCHANGED <<client, lock, hashseed, events, posts, docs, index, tasks, states, now, agents, claims, calls>>

ReleaseUpdate(s) ==
    /\ pc[s] = "rel_update"
    /\ claims' = [claims EXCEPT ![loc[s].claim].status = "RELEASED"]
    /\ Return(s, [op |-> "release", success |-> TRUE, claim_id |-> loc[s].claim,
                  agent |-> loc[s].agent])
    /\ UNCHANGED <<client, lock, hashseed, events, posts, docs, index, tasks, states, now, agents, calls>>

\* check_claim -------------------------------------------------------------
CheckFind(s) ==
    /\ Begin(s, MaxClaimCalls)
    /\ \E r \in Resources :
         LET M == ActiveClaimRows(r) IN
         IF M = {}
         THEN Return(s, [op |-> "check", claimed |-> FALSE, resource |-> r])
         ELSE \E c \in M :
                IF claims[c].expiresAt < now
                THEN Goto(s, "chk_expire", [op |-> "check", resource |-> r, claim |-> c])
                ELSE Return(s, [op |-> "check", claimed |-> TRUE, resource |-> r,
                                claim_id |-> c,
                                claimed_by |-> agents[claims[c].agentId].agentId])
    /\ UNCHANGED <<client, lock, hashseed, events, posts, docs, index, tasks, states, now, agents, claims>>

CheckExpire(s) ==
    /\ pc[s] = "chk_expire"
    /\ claims' = [claims EXCEPT ![loc[s].claim].status = "EXPIRED"]
    /\ Return(s, [op |-> "check", claimed |-> FALSE, resource |-> loc[s].resource,
                  note |-> "Previous claim expired"])
    /\ UNCHANGED <<client, lock, hashseed, events, posts, docs, index, tasks, states, now, agents, calls>>

\* Time passes.
Tick ==
    /\ now < MaxTime
    /\ now' = now + 1
    /\ UNCHANGED <<client, lock, hashseed, events, posts, docs, index, agents, claims, states, tasks, pc, loc, res, calls>>

\* ------------------------------------------- specification: resource claims
\* Agents A and B have joined the swarm (two join_swarm calls have returned).
Joined ==
    <<[agentId |-> "A", isActive |-> TRUE, lastHeartbeat |-> 0],
      [agentId |-> "B", isActive |-> TRUE, lastHeartbeat |-> 0]>>

InitClaims ==
    /\ now = 0
    /\ agents = Joined
    /\ claims = <<>>
    /\ states = <<>>
    /\ tasks = <<>>
    /\ events = <<>>
    /\ posts = <<>>
    /\ docs = {}
    /\ index = NoIndex
    /\ client = NoClient
    /\ lock = 0
    /\ hashseed = 0
    /\ pc = [s \in Slots |-> "idle"]
    /\ loc = [s \in Slots |-> NoLoc]
    /\ res = [s \in Slots |-> NoRes]
    /\ calls = 0

NextClaims ==
    \/ Tick
    \/ \E s \in Slots : LeaveFind(s)
    \/ \E s \in Slots : LeaveDeactivate(s)
    \/ \E s \in Slots : LeaveRelease(s)
    \/ \E s \in Slots : AcquireFindAgent(s)
    \/ \E s \in Slots : AcquireFindExisting(s)
    \/ \E s \in Slots : AcquireExpire(s)
    \/ \E s \in Slots : AcquireExtend(s)
    \/ \E s \in Slots : AcquireCreate(s)
    \/ \E s \in Slots : ReleaseFindAgent(s)
    \/ \E s \in Slots : ReleaseFindClaim(s)
    \/ \E s \in Slots : ReleaseUpdate(s)
    \/ \E s \in Slots : CheckFind(s)
    \/ \E s \in Slots : CheckExpire(s)

SpecClaims == InitClaims /\ [][NextClaims]_vars

\* ------------------------------------------------------------ SharedState
\* JSON values: numbers, strings, and objects (a function from keys).
JNum(n) == [t |-> "num", v |-> n]
JStr(x) == [t |-> "str", v |-> x]
JObj(f) == [t |-> "obj", f |-> f]

\* json.loads on the strings of the model: "7" is JSON text, "hello" is not.
JsonText == {"7"}
JsonLoads(x) == JNum(7)

\* expected_version = None
NoVersion == -1

\* The value set_state stores (lines 697-706): a string is parsed as JSON
\* when it parses and wrapped as {"raw": x} otherwise, dicts and lists are
\* stored as they are, any other value is wrapped as {"value": x}.
WrapValue(value) ==
    IF value.t = "str"
    THEN IF value.v \in JsonText THEN JsonLoads(value.v) ELSE JObj("raw" :> value)
    ELSE IF value.t \in {"obj", "list"} THEN value
    ELSE JObj("value" :> value)

\* The value get_state returns for a stored value (lines 576-582).
UnwrapValue(value) ==
    IF value.t = "obj" /\ Cardinality(DOMAIN value.f) = 1
    THEN IF "value" \in DOMAIN value.f THEN value.f["value"]
         ELSE IF "raw" \in DOMAIN value.f THEN value.f["raw"]
         ELSE value
    ELSE value

\* db.sharedstate.find_first(where={swarmId, key}): the rows it may return.
StateRows(key) == {e \in DOMAIN states : states[e].key = key}

Values == {JNum(1), JNum(2)}

\* JSON values of every kind: number, boolean, array, strings that are and
\* are not JSON text, objects with one and with two keys.
JsonValues ==
    {JNum(1), [t |-> "bool", v |-> TRUE], [t |-> "list", v |-> <<JNum(1)>>],
     JStr("hello"), JStr("7"),
     JObj("value" :> JNum(1)), JObj("raw" :> JStr("hello")),
     JObj("a" :> JNum(1)), JObj(("a" :> JNum(1)) @@ ("b" :> JNum(2)))}
ExpectedVersions == {NoVersion} \cup (0..(MaxStateCalls - 1))

\* The ids of the requests in flight.
CallsInFlight == {loc[s].call.id : s \in {x \in Slots : pc[x] # "idle"}}

\* set_state ---------------------------------------------------------------
\* Entry: the arguments are bound and the value is made storable.  `call`
\* records the request for the properties: its id, the requests in flight
\* when it began, and its arguments.
SetStateBegin(s, values) ==
    /\ Begin(s, MaxStateCalls)
    /\ \E agent_id \in Agents, key \in Keys, value \in values, ev \in ExpectedVersions :
         Goto(s, "set_find",
              [op |-> "set_state",
               call |-> [id |-> calls + 1, with |-> CallsInFlight, key |-> key,
                         agent_id |-> agent_id, expected_version |-> ev,
                         value |-> value],
               parsed_value |-> WrapValue(value)])
    /\ UNCHANGED <<client, lock, hashseed, events, posts, docs, index, tasks, now, agents, claims, states>>

\* set_state called with a number as value.
SetStateStart(s) == SetStateBegin(s, Values)

\* set_state called with any JSON value of the model.
SetStateStartJson(s) == SetStateBegin(s, JsonValues)

\* set_state that never refuses a write.
VersionMismatchIgnored(expected_version, existing) == FALSE

\* The optimistic-lock test of line 718.
VersionMismatch(expected_version, existing) ==
    expected_version # NoVersion /\ states[existing].version # expected_version

SetStateFind(s) ==
    /\ pc[s] = "set_find"
    /\ LET M == StateRows(loc[s].call.key) IN
       IF M = {}
       THEN Goto(s, "set_create", loc[s])
       ELSE \E e \in M :
              IF VersionMismatch(loc[s].call.expected_version, e)
              THEN Return(s, [op |-> "set_state", call |-> loc[s].call,
                              success |-> FALSE,
                              error |-> "Version mismatch (concurrent update)",
                              current_version |-> states[e].version,
                              expected_version |-> loc[s].call.expected_version])
              ELSE Goto(s, "set_update",
                        loc[s] @@ [existing |-> e, new_version |-> states[e].version + 1])
    /\ UNCHANGED <<client, lock, hashseed, events, posts, docs, index, tasks, now, agents, claims, states, calls>>

SetStateUpdate(s) ==
    /\ pc[s] = "set_update"
    /\ states' = [states EXCEPT ![loc[s].existing] =
                    [@ EXCEPT !.value = loc[s].parsed_value,
                              !.version = loc[s].new_version,
                              !.updatedBy = loc[s].call.agent_id]]
    /\ Return(s, [op |-> "set_state", call |-> loc[s].call, success |-> TRUE,
                  key |-> loc[s].call.key, version |-> loc[s].new_version,
                  message |-> "State updated"])
    /\ UNCHANGED <<client, lock, hashseed, events, posts, docs, index, tasks, now, agents, claims, calls>>

\* db.sharedstate.create: the row is inserted; when a row of the key has
\* appeared since the find, the insert may also hit a unique index on
\* (swarmId, key) and raise (the schema is not part of the sources).
SetStateCreate(s) ==
    /\ pc[s] = "set_create"
    /\ \/ /\ states' = Append(states, [key |-> loc[s].call.key,
                                       value |-> loc[s].parsed_value,
                                       version |-> 1,
                                       updatedBy |-> loc[s].call.agent_id])
          /\ Return(s, [op |-> "set_state", call |-> loc[s].call, success |-> TRUE,
                        key |-> loc[s].call.key, version |-> 1,
                        message |-> "State created"])
       \/ /\ StateRows(loc[s].call.key) # {}
          /\ UNCHANGED states
          /\ Return(s, [op |-> "set_state", call |-> loc[s].call, success |-> FALSE,
                        raised |-> "UniqueViolationError"])
    /\ UNCHANGED <<client, lock, hashseed, events, posts, docs, index, tasks, now, agents, claims, calls>>

\* get_state ---------------------------------------------------------------
GetState(s) ==
    /\ Begin(s, MaxStateCalls)
    /\ \E key \in Keys :
         LET M == StateRows(key) IN
         IF M = {}
         THEN Return(s, [op |-> "get_state", found |-> FALSE, key |-> key])
         ELSE \E e \in M :
                Return(s, [op |-> "get_state", found |-> TRUE, key |-> key,
                           value |-> UnwrapValue(states[e].value),
                           version |-> states[e].version,
                           updated_by |-> states[e].updatedBy])
    /\ UNCHANGED <<client, lock, hashseed, events, posts, docs, index, tasks, now, agents, claims, states>>

\* --------------------------------------------- specification: shared state
InitState == InitClaims

NextState ==
    \/ \E s \in Slots : SetStateStart(s)
    \/ \E s \in Slots : SetStateFind(s)
    \/ \E s \in Slots : SetStateUpdate(s)
    \/ \E s \in Slots : SetStateCreate(s)
    \/ \E s \in Slots : GetState(s)

SpecState == InitState /\ [][NextState]_vars

\* ----------------------- specification: shared state, one call at a time
\* One client sets and gets JSON values, waiting for each response.
NextStateSeq ==
    \/ Quiet /\ SetStateStartJson(1)
    \/ \E s \in Slots : SetStateFind(s)
    \/ \E s \in Slots : SetStateUpdate(s)
    \/ \E s \in Slots : SetStateCreate(s)
    \/ Quiet /\ GetState(1)

SpecStateSeq == InitState /\ [][NextStateSeq]_vars

\* -------------------------------------------------------------- SwarmTask
\* depends_on lists a create_task call can carry when n tasks exist: any
\* list of existing task ids, repetitions included.
DepLists(n) == UNION {[1..k -> 1..n] : k \in 0..MaxDeps}

\* The row create_task inserts (lines 815-825).
NewTask(priority, depends_on) ==
    [status |-> "PENDING", priority |-> priority, dependsOn |-> depends_on,
     assignedTo |-> 0, claimedAt |-> <<>>]

\* _check_dependencies_complete: the COMPLETED rows whose id is in dep_ids
\* are counted and the count is compared with len(dep_ids).
DependenciesComplete(dep_ids) ==
    Cardinality({t \in DOMAIN tasks :
                   /\ \E i \in DOMAIN dep_ids : dep_ids[i] = t
                   /\ tasks[t].status = "COMPLETED"}) = Len(dep_ids)

\* ORDER BY priority DESC, createdAt ASC.
Before(u, t) ==
    \/ tasks[u].priority > tasks[t].priority
    \/ tasks[u].priority = tasks[t].priority /\ u < t

\* find_many(where={swarmId, status: "PENDING"}, order=[priority desc,
\* createdAt asc]) of _get_available_task.
PendingTasks ==
    LET P == {t \in DOMAIN tasks : tasks[t].status = "PENDING"}
        Rank(t) == Cardinality({u \in P : Before(u, t)}) + 1
    IN  [k \in 1..Cardinality(P) |-> CHOOSE t \in P : Rank(t) = k]

\* create_task -------------------------------------------------------------
CreateTask(s) ==
    /\ Begin(s, MaxTaskCalls)
    /\ Len(tasks) < MaxTasks
    /\ \E priority \in Priorities, depends_on \in DepLists(Len(tasks)) :
         /\ tasks' = Append(tasks, NewTask(priority, depends_on))
         /\ Return(s, [op |-> "create_task", success |-> TRUE,
                       task_id |-> Len(tasks) + 1, priority |-> priority,
                       depends_on |-> depends_on])
    /\ UNCHANGED <<client, lock, hashseed, events, posts, docs, index, now, agents, claims, states>>

\* claim_task --------------------------------------------------------------
\* task_id = 0 stands for None.
ClaimFindAgent(s) ==
    /\ Begin(s, MaxTaskCalls)
    /\ \E agent_id \in Agents, task_id \in 0..Len(tasks), ttl \in TTLs :
         LET M == ActiveAgentRows(agent_id) IN
         IF M = {}
         THEN Return(s, [op |-> "claim_task", success |-> FALSE,
                         error |-> "Agent not in swarm", task_id |-> 0])
         ELSE \E a \in M :
                Goto(s, IF task_id # 0 THEN "claim_find" ELSE "claim_scan",
                     [op |-> "claim_task", agent |-> a, task_id |-> task_id,
                      timeout_seconds |-> ttl])
    /\ UNCHANGED <<client, lock, hashseed, events, posts, docs, index, now, agents, claims, states, tasks>>

\* claim_task once it holds a task row (lines 967-979): a task with
\* dependencies has them checked first; otherwise the update is issued, its
\* timestamps taken from the clock now.
TaskFound(s, t) ==
    IF tasks[t].dependsOn # <<>>
    THEN Goto(s, "claim_deps", [task |-> t] @@ loc[s])
    ELSE Goto(s, "claim_update", [task |-> t, claimed_at |-> now] @@ loc[s])

ClaimFindTask(s) ==
    /\ pc[s] = "claim_find"
    /\ IF tasks[loc[s].task_id].status = "PENDING"
       THEN TaskFound(s, loc[s].task_id)
       ELSE Return(s, [op |-> "claim_task", success |-> FALSE,
                       error |-> "Task not found or not available", task_id |-> 0])
    /\ UNCHANGED <<client, lock, hashseed, events, posts, docs, index, now, agents, claims, states, tasks, calls>>

\* The for loop of _get_available_task from position i of the snapshot
\* `pending`, up to its next awaited dependency check.
ScanFrom(s, pending, i) ==
    IF i > Len(pending)
    THEN Return(s, [op |-> "claim_task", success |-> FALSE,
                    error |-> "No available tasks", task_id |-> 0])
    ELSE IF tasks[pending[i]].dependsOn = <<>>
    THEN TaskFound(s, pending[i])
    ELSE Goto(s, "scan_deps", [pending |-> pending, i |-> i] @@ loc[s])

ClaimScan(s) ==
    /\ pc[s] = "claim_scan"
    /\ ScanFrom(s, PendingTasks, 1)
    /\ UNCHANGED <<client, lock, hashseed, events, posts, docs, index, now, agents, claims, states, tasks, calls>>

ScanDeps(s) ==
    /\ pc[s] = "scan_deps"
    /\ LET t == loc[s].pending[loc[s].i] IN
       IF DependenciesComplete(tasks[t].dependsOn)
       THEN TaskFound(s, t)
       ELSE ScanFrom(s, loc[s].pending, loc[s].i + 1)
    /\ UNCHANGED <<client, lock, hashseed, events, posts, docs, index, now, agents, claims, states, tasks, calls>>

ClaimDeps(s) ==
    /\ pc[s] = "claim_deps"
    /\ IF DependenciesComplete(tasks[loc[s].task].dependsOn)
       THEN Goto(s, "claim_update", [claimed_at |-> now] @@ loc[s])
       ELSE Return(s, [op |-> "claim_task", success |-> FALSE,
                       error |-> "Task dependencies not yet completed",
                       task_id |-> loc[s].task])
    /\ UNCHANGED <<client, lock, hashseed, events, posts, docs, index, now, agents, claims, states, tasks, calls>>

ClaimUpdate(s) ==
    /\ pc[s] = "claim_update"
    /\ tasks' = [tasks EXCEPT ![loc[s].task] =
                   [@ EXCEPT !.status = "IN_PROGRESS",
                             !.assignedTo = loc[s].agent,
                             !.claimedAt = <<loc[s].claimed_at>>]]
    /\ Return(s, [op |-> "claim_task", success |-> TRUE, task_id |-> loc[s].task,
                  priority |-> tasks[loc[s].task].priority,
                  deadline |-> loc[s].claimed_at + loc[s].timeout_seconds,
                  agent |-> loc[s].agent])
    /\ UNCHANGED <<client, lock, hashseed, events, posts, docs, index, now, agents, claims, states, calls>>

\* complete_task -----------------------------------------------------------
CompleteFindAgent(s) ==
    /\ Begin(s, MaxTaskCalls)
    /\ \E agent_id \in Agents, task_id \in 1..Len(tasks), success \in BOOLEAN :
         LET M == ActiveAgentRows(agent_id) IN
         IF M = {}
         THEN Return(s, [op |-> "complete_task", success |-> FALSE,
                         error |-> "Agent not in swarm"])
         ELSE \E a \in M :
                Goto(s, "comp_find", [op |-> "complete_task", agent |-> a,
                                      task_id |-> task_id, success |-> success])
    /\ UNCHANGED <<client, lock, hashseed, events, posts, docs, index, now, agents, claims, states, tasks>>

CompleteFindTask(s) ==
    /\ pc[s] = "comp_find"
    /\ IF /\ tasks[loc[s].task_id].assignedTo = loc[s].agent
          /\ tasks[loc[s].task_id].status = "IN_PROGRESS"
       THEN Goto(s, "comp_update", loc[s])
       ELSE Return(s, [op |-> "complete_task", success |-> FALSE,
                       error |-> "Task not found or not assigned to agent"])
    /\ UNCHANGED <<client, lock, hashseed, events, posts, docs, index, now, agents, claims, states, tasks, calls>>

CompleteUpdate(s) ==
    /\ pc[s] = "comp_update"
    /\ LET status == IF loc[s].success THEN "COMPLETED" ELSE "FAILED" IN
       /\ tasks' = [tasks EXCEPT ![loc[s].task_id].status = status]
       /\ Return(s, [op |-> "complete_task", success |-> TRUE,
                     task_id |-> loc[s].task_id,
                     status |-> IF loc[s].success THEN "completed" ELSE "failed"])
    /\ UNCHANGED <<client, lock, hashseed, events, posts, docs, index, now, agents, claims, states, calls>>

\* The rlm_task_complete result built from the dict complete_task returned:
\* a field the dict lacks takes the default the result model declares.
TaskCompleteResult(d) ==
    [task_id |-> d.task_id,
     status |-> d.status,
     completed |-> d.status = "completed",
     unblocked_tasks |-> IF "unblocked_tasks" \in DOMAIN d
                         THEN d.unblocked_tasks ELSE <<>>]

\* ------------------------------------------------ specification: task queue
\* The task tables n create_task calls leave behind.
RECURSIVE TaskTables(_)
TaskTables(n) ==
    IF n = 0 THEN {<<>>}
    ELSE {Append(l, NewTask(p, d)) :
            l \in TaskTables(n - 1), p \in Priorities, d \in DepLists(n - 1)}

\* Agents A and B have joined and some tasks have been created.
InitTasks ==
    /\ now = 0
    /\ agents = Joined
    /\ claims = <<>>
    /\ states = <<>>
    /\ tasks \in UNION {TaskTables(n) : n \in 0..MaxTasks}
    /\ events = <<>>
    /\ posts = <<>>
    /\ docs = {}
    /\ index = NoIndex
    /\ client = NoClient
    /\ lock = 0
    /\ hashseed = 0
    /\ pc = [s \in Slots |-> "idle"]
    /\ loc = [s \in Slots |-> NoLoc]
    /\ res = [s \in Slots |-> NoRes]
    /\ calls = 0

NextTasks ==
    \/ Tick
    \/ \E s \in Slots : CreateTask(s)
    \/ \E s \in Slots : ClaimFindAgent(s)
    \/ \E s \in Slots : ClaimFindTask(s)
    \/ \E s \in Slots : ClaimScan(s)
    \/ \E s \in Slots : ScanDeps(s)
    \/ \E s \in Slots : ClaimDeps(s)
    \/ \E s \in Slots : ClaimUpdate(s)
    \/ \E s \in Slots : CompleteFindAgent(s)
    \/ \E s \in Slots : CompleteFindTask(s)
    \/ \E s \in Slots : CompleteUpdate(s)

SpecTasks == InitTasks /\ [][NextTasks]_vars

\* ------------------------------- specification: task queue, one call at a time
\* The task queue driven by callers that wait for each response before the
\* next request is sent.
NextTasksSeq ==
    \/ Tick
    \/ \E s \in Slots : Quiet /\ CreateTask(s)
    \/ \E s \in Slots : Quiet /\ ClaimFindAgent(s)
    \/ \E s \in Slots : ClaimFindTask(s)
    \/ \E s \in Slots : ClaimScan(s)
    \/ \E s \in Slots : ScanDeps(s)
    \/ \E s \in Slots : ClaimDeps(s)
    \/ \E s \in Slots : ClaimUpdate(s)
    \/ \E s \in Slots : Quiet /\ CompleteFindAgent(s)
    \/ \E s \in Slots : CompleteFindTask(s)
    \/ \E s \in Slots : CompleteUpdate(s)

SpecTasksSeq == InitTasks /\ [][NextTasksSeq]_vars

\* ------------------------------------------------------------- SwarmAgent
\* The swarm's max_agents ceiling.
SwarmMaxAgents == 2

\* check_swarm_agent_limits: a further agent is admitted while the swarm has
\* fewer active agents than its ceiling.
SwarmAgentLimitsAllow ==
    Cardinality({a \in DOMAIN agents : agents[a].isActive}) < SwarmMaxAgents

\* join_swarm --------------------------------------------------------------
\* The swarm of the model exists and is active.
JoinFindSwarm(s) ==
    /\ Begin(s, MaxAgentCalls)
    /\ \E agent_id \in Agents :
         Goto(s, "join_limits", [op |-> "join", agent_id |-> agent_id])
    /\ UNCHANGED <<client, lock, hashseed, events, posts, docs, index, tasks, states, now, agents, claims>>

JoinCheckLimits(s) ==
    /\ pc[s] = "join_limits"
    /\ IF SwarmAgentLimitsAllow
       THEN Goto(s, "join_find", loc[s])
       ELSE Return(s, [op |-> "join", success |-> FALSE,
                       error |-> "Agent limit reached", agent_id |-> 0])
    /\ UNCHANGED <<client, lock, hashseed, events, posts, docs, index, tasks, states, now, agents, claims, calls>>

JoinFindExisting(s) ==
    /\ pc[s] = "join_find"
    /\ LET M == ActiveAgentRows(loc[s].agent_id) IN
       IF M # {}
       THEN \E a \in M :
              Goto(s, "join_heartbeat", [existing |-> a, heartbeat |-> now] @@ loc[s])
       ELSE Goto(s, "join_create", [heartbeat |-> now] @@ loc[s])
    /\ UNCHANGED <<client, lock, hashseed, events, posts, docs, index, tasks, states, now, agents, claims, calls>>

JoinHeartbeat(s) ==
    /\ pc[s] = "join_heartbeat"
    /\ agents' = [agents EXCEPT ![loc[s].existing].lastHeartbeat = loc[s].heartbeat]
    /\ Return(s, [op |-> "join", success |-> TRUE, agent_id |-> loc[s].existing,
                  message |-> "Already in swarm, updated heartbeat"])
    /\ UNCHANGED <<client, lock, hashseed, events, posts, docs, index, tasks, states, now, claims, calls>>

\* The table's indexes are not part of the server sources: the create either
\* inserts the row or, when the agent id already has a row in the swarm, may
\* be refused by the database; join_swarm does not catch the error.
JoinCreate(s) ==
    /\ pc[s] = "join_create"
    /\ \/ /\ agents' = Append(agents, [agentId |-> loc[s].agent_id, isActive |-> TRUE,
                                       lastHeartbeat |-> loc[s].heartbeat])
          /\ Return(s, [op |-> "join", success |-> TRUE, agent_id |-> Len(agents) + 1,
                        message |-> "Joined swarm"])
       \/ /\ \E a \in DOMAIN agents : agents[a].agentId = loc[s].agent_id
          /\ UNCHANGED agents
          /\ Return(s, [op |-> "join", success |-> FALSE,
                        raised |-> "UniqueViolationError"])
    /\ UNCHANGED <<client, lock, hashseed, events, posts, docs, index, tasks, states, now, claims, calls>>

\* ------------------------------------------------ specification: membership
\* The swarm has been created; no agent has joined.
InitAgents ==
    /\ now = 0
    /\ agents = <<>>
    /\ claims = <<>>
    /\ states = <<>>
    /\ tasks = <<>>
    /\ events = <<>>
    /\ posts = <<>>
    /\ docs = {}
    /\ index = NoIndex
    /\ client = NoClient
    /\ lock = 0
    /\ hashseed = 0
    /\ pc = [s \in Slots |-> "idle"]
    /\ loc = [s \in Slots |-> NoLoc]
    /\ res = [s \in Slots |-> NoRes]
    /\ calls = 0

\* leave_swarm begun under the call bound of this specification.
LeaveFindAgents(s) ==
    /\ calls < MaxAgentCalls
    /\ LeaveFind(s)

NextAgents ==
    \/ Tick
    \/ \E s \in Slots : JoinFindSwarm(s)
    \/ \E s \in Slots : JoinCheckLimits(s)
    \/ \E s \in Slots : JoinFindExisting(s)
    \/ \E s \in Slots : JoinHeartbeat(s)
    \/ \E s \in Slots : JoinCreate(s)
    \/ \E s \in Slots : LeaveFindAgents(s)
    \/ \E s \in Slots : LeaveDeactivate(s)
    \/ \E s \in Slots : LeaveRelease(s)

SpecAgents == InitAgents /\ [][NextAgents]_vars

\* ---------------------- specification: task queue with agents leaving
\* Tasks are created, claimed and completed while agents leave and join the
\* swarm; each caller waits for its response, and every request that can be
\* sent is eventually sent.
NextTasksLeave ==
    \/ Quiet /\ CreateTask(1)
    \/ Quiet /\ ClaimFindAgent(1)
    \/ \E s \in Slots : ClaimFindTask(s)
    \/ \E s \in Slots : ClaimScan(s)
    \/ \E s \in Slots : ScanDeps(s)
    \/ \E s \in Slots : ClaimDeps(s)
    \/ \E s \in Slots : ClaimUpdate(s)
    \/ Quiet /\ CompleteFindAgent(1)
    \/ \E s \in Slots : CompleteFindTask(s)
    \/ \E s \in Slots : CompleteUpdate(s)
    \/ Quiet /\ LeaveFind(1)
    \/ \E s \in Slots : LeaveDeactivate(s)
    \/ \E s \in Slots : LeaveRelease(s)
    \/ Quiet /\ JoinFindSwarm(1)
    \/ \E s \in Slots : JoinCheckLimits(s)
    \/ \E s \in Slots : JoinFindExisting(s)
    \/ \E s \in Slots : JoinHeartbeat(s)
    \/ \E s \in Slots : JoinCreate(s)

SpecTasksLeave ==
    InitClaims /\ [][NextTasksLeave]_vars /\ WF_vars(NextTasksLeave)

\* --------------------------- specification: resource claims, one call at a time
NextClaimsSeq ==
    \/ Tick
    \/ \E s \in Slots : Quiet /\ LeaveFind(s)
    \/ \E s \in Slots : LeaveDeactivate(s)
    \/ \E s \in Slots : LeaveRelease(s)
    \/ \E s \in Slots : Quiet /\ AcquireFindAgent(s)
    \/ \E s \in Slots : AcquireFindExisting(s)
    \/ \E s \in Slots : AcquireExpire(s)
    \/ \E s \in Slots : AcquireExtend(s)
    \/ \E s \in Slots : AcquireCreate(s)
    \/ \E s \in Slots : Quiet /\ ReleaseFindAgent(s)
    \/ \E s \in Slots : ReleaseFindClaim(s)
    \/ \E s \in Slots : ReleaseUpdate(s)
    \/ \E s \in Slots : Quiet /\ CheckFind(s)
    \/ \E s \in Slots : CheckExpire(s)

SpecClaimsSeq == InitClaims /\ [][NextClaimsSeq]_vars

\* ------------------------------------------------------- request admission
\* A request as the admission pipeline sees it: the endpoint it was sent to,
\* the branch its key prefix selects, and what each lookup of the pipeline
\* will answer for it.  access_denied is an attribute of a validated API key,
\* bundle_exceeded of an integrator client; query is the tool/params pair of
\* an SSE request.
Endpoints == {"rest", "sse", "transport"}
KeyKinds == {"oauth", "integrator", "api"}
Queries == {"ok", "too_large", "bad_tool", "bad_json"}

Requests ==
    {r \in [endpoint : Endpoints, key : KeyKinds, scan_blocked : BOOLEAN,
            auth_valid : BOOLEAN, access_denied : BOOLEAN,
            project_found : BOOLEAN, rate_ok : BOOLEAN,
            bundle_exceeded : BOOLEAN, usage_exceeded : BOOLEAN,
            query : Queries] :
       /\ r.access_denied => (r.key = "api" /\ r.auth_valid)
       /\ r.bundle_exceeded => (r.key = "integrator" /\ r.auth_valid)
       /\ r.query # "ok" => r.endpoint = "sse"}

\* raise HTTPException(status_code, detail) out of the endpoint, or the
\* error tuple of validate_request (status 0); `by` names the check.
Reject(s, by, status, detail) ==
    Return(s, [op |-> "rejected", endpoint |-> loc[s].req.endpoint, by |-> by,
               status |-> status, detail |-> detail])

\* mcp_endpoint / mcp_sse_endpoint / validate_request up to the first lookup.
GateBegin(s) ==
    /\ Begin(s, MaxGatewayCalls)
    /\ \E r \in Requests : Goto(s, "gate_scan", [op |-> "tool_call", req |-> r])
    /\ UNCHANGED <<client, lock, hashseed, events, posts, docs, index, tasks, states, now, agents, claims>>

\* 0. Anti-scan.
GateScan(s) ==
    /\ pc[s] = "gate_scan"
    /\ IF loc[s].req.scan_blocked
       THEN Reject(s, "anti_scan", 429, "Too many failed requests. Try again later.")
       ELSE Goto(s, "gate_auth", loc[s])
    /\ UNCHANGED <<client, lock, hashseed, events, posts, docs, index, tasks, states, now, agents, claims, calls>>

\* validate_request has no integrator branch: such a key is validated as an
\* API key.
AuthBranch(r) ==
    IF r.endpoint = "transport" /\ r.key = "integrator" THEN "api" ELSE r.key

AuthFailureDetail(branch) ==
    CASE branch = "oauth" -> "Invalid or expired OAuth token."
      [] branch = "integrator" -> "Invalid client API key."
      [] OTHER -> "Invalid API key."

\* 1. Auth, and 2. the access-denial test on the validated key.
GateAuth(s) ==
    /\ pc[s] = "gate_auth"
    /\ LET r == loc[s].req IN
       IF ~r.auth_valid
       THEN Reject(s, "auth", 401, AuthFailureDetail(AuthBranch(r)))
       ELSE IF r.endpoint # "transport" /\ r.access_denied
       THEN Goto(s, "gate_denial", loc[s])
       ELSE Goto(s, "gate_project", loc[s])
    /\ UNCHANGED <<client, lock, hashseed, events, posts, docs, index, tasks, states, now, agents, claims, calls>>

\* await record_access_denial(...), then 403.
GateDenial(s) ==
    /\ pc[s] = "gate_denial"
    /\ Reject(s, "access_denial", 403, "Access denied to this project.")
    /\ UNCHANGED <<client, lock, hashseed, events, posts, docs, index, tasks, states, now, agents, claims, calls>>

\* 3./4. Project with team subscription; the plan is computed from it.
GateProject(s) ==
    /\ pc[s] = "gate_project"
    /\ IF ~loc[s].req.project_found
       THEN Reject(s, "plan", 404, "Project not found")
       ELSE Goto(s, "gate_rate", loc[s])
    /\ UNCHANGED <<client, lock, hashseed, events, posts, docs, index, tasks, states, now, agents, claims, calls>>

\* An admission pipeline that does not reject on an exhausted rate limit.
GateRateNoCheck(s) ==
    /\ pc[s] = "gate_rate"
    /\ Goto(s, IF loc[s].req.endpoint = "transport" THEN "gate_usage"
               ELSE IF loc[s].req.key = "integrator" THEN "gate_bundle"
               ELSE "gate_settings", loc[s])
    /\ UNCHANGED <<client, lock, hashseed, events, posts, docs, index, tasks, states, now, agents, claims, calls>>

\* 5. Rate limit.
GateRate(s) ==
    /\ pc[s] = "gate_rate"
    /\ LET r == loc[s].req IN
       IF ~r.rate_ok
       THEN Reject(s, "rate_limit", 429, "Rate limit exceeded")
       ELSE IF r.endpoint = "transport" THEN Goto(s, "gate_usage", loc[s])
       ELSE IF r.key = "integrator" THEN Goto(s, "gate_bundle", loc[s])
       ELSE Goto(s, "gate_settings", loc[s])
    /\ UNCHANGED <<client, lock, hashseed, events, posts, docs, index, tasks, states, now, agents, claims, calls>>

\* 5.5 Bundle limits of an integrator client.
GateBundle(s) ==
    /\ pc[s] = "gate_bundle"
    /\ IF loc[s].req.bundle_exceeded
       THEN Reject(s, "bundle", 429, "Monthly query limit exceeded for bundle")
       ELSE Goto(s, "gate_settings", loc[s])
    /\ UNCHANGED <<client, lock, hashseed, events, posts, docs, index, tasks, states, now, agents, claims, calls>>

\* 6. get_project_settings; validate_and_rate_limit returns to the endpoint.
GateSettings(s) ==
    /\ pc[s] = "gate_settings"
    /\ Goto(s, "gate_usage", loc[s])
    /\ UNCHANGED <<client, lock, hashseed, events, posts, docs, index, tasks, states, now, agents, claims, calls>>

\* The checks of mcp_sse_endpoint on its query string (payload size, tool
\* name, JSON) before the stream is returned.
SseQueryCheck(s) ==
    CASE loc[s].req.query = "too_large" ->
           Reject(s, "query", 413, "JSON payload too large.")
      [] loc[s].req.query = "bad_tool" ->
           Reject(s, "query", 400, "Invalid tool name")
      [] loc[s].req.query = "bad_json" ->
           Reject(s, "query", 400, "Invalid JSON format in params parameter")
      [] OTHER -> Goto(s, "sse_start", [events |-> <<>>, tracked |-> <<>>] @@ loc[s])

\* check_usage_limits, in the endpoint (rest, sse) or at the end of
\* validate_request (transport, whose tool dispatch is outside this model).
GateUsage(s) ==
    /\ pc[s] = "gate_usage"
    /\ LET r == loc[s].req IN
       IF r.usage_exceeded
       THEN Reject(s, "monthly_usage", IF r.endpoint = "transport" THEN 0 ELSE 429,
                   IF r.endpoint = "transport" THEN "Monthly limit exceeded"
                   ELSE "Monthly usage limit exceeded")
       ELSE IF r.endpoint = "transport"
       THEN Return(s, [op |-> "admitted", endpoint |-> "transport"])
       ELSE IF r.endpoint = "sse" THEN SseQueryCheck(s)
       ELSE Goto(s, "exec", [events |-> <<>>, tracked |-> <<>>] @@ loc[s])
    /\ UNCHANGED <<client, lock, hashseed, events, posts, docs, index, tasks, states, now, agents, claims, calls>>

\* ---------------------------------------------------------- error messages
\* An exception text is a sequence of fragments; a pattern occurs in a text
\* when one of its fragments is the pattern up to letter case.
SafePatterns ==
    {"Invalid API key", "Project not found", "Rate limit exceeded",
     "Monthly usage limit exceeded", "Invalid tool name", "Invalid regex pattern",
     "No documentation loaded", "Unknown tool", "Invalid parameter",
     "Token budget", "Plan does not support"}

Fragments == {"Token budget", "RATE LIMIT EXCEEDED", "password=hunter2"}

\* str.lower() on the strings of the model.
Lower(f) ==
    CASE f = "Invalid API key" -> "invalid api key"
      [] f = "Project not found" -> "project not found"
      [] f = "Rate limit exceeded" -> "rate limit exceeded"
      [] f = "RATE LIMIT EXCEEDED" -> "rate limit exceeded"
      [] f = "Monthly usage limit exceeded" -> "monthly usage limit exceeded"
      [] f = "Invalid tool name" -> "invalid tool name"
      [] f = "Invalid regex pattern" -> "invalid regex pattern"
      [] f = "No documentation loaded" -> "no documentation loaded"
      [] f = "Unknown tool" -> "unknown tool"
      [] f = "Invalid parameter" -> "invalid parameter"
      [] f = "Token budget" -> "token budget"
      [] f = "Plan does not support" -> "plan does not support"
      [] OTHER -> f

\* pattern.lower() in error_str.lower()
Occurs(pattern, error_str) ==
    \E i \in DOMAIN error_str : Lower(error_str[i]) = Lower(pattern)

GenericError == <<"An error occurred processing your request. Please try again.">>

sanitize_error_message(error_str) ==
    IF \E pattern \in SafePatterns : Occurs(pattern, error_str)
    THEN error_str
    ELSE GenericError

\* The exception texts a handler may raise.
ErrorTexts == UNION {[1..n -> Fragments] : n \in 1..MaxErrLen}

\* ----------------------------------------------------------- tool execution
\* What engine.execute does with an admitted call: it returns a ToolResult
\* whose data is plain JSON or holds datetime objects (model_dump() of a
\* result model with datetime fields), or it raises.
HandlerOutcomes ==
    {[kind |-> "returns", data |-> d] : d \in {"plain", "has_datetime"}}
      \cup {[kind |-> "raises", error |-> e] : e \in ErrorTexts}

\* track_usage appends one usage record.
TrackUsage(tracked, success, error) ==
    Append(tracked, [success |-> success, error |-> error])

\* json.dumps accepts the data (no default= hook is given).
JsonDumpsAccepts(data) == data = "plain"

\* First yield of sse_event_generator.
SseStart(s) ==
    /\ pc[s] = "sse_start"
    /\ Goto(s, "exec", [events |-> <<"start">>] @@ loc[s])
    /\ UNCHANGED <<client, lock, hashseed, events, posts, docs, index, tasks, states, now, agents, claims, calls>>

\* await engine.execute(tool, params)
Execute(s) ==
    /\ pc[s] = "exec"
    /\ \E o \in HandlerOutcomes :
         IF o.kind = "returns"
         THEN Goto(s, "track_ok", [outcome |-> o] @@ loc[s])
         ELSE Goto(s, "track_fail", [outcome |-> o, error |-> o.error] @@ loc[s])
    /\ UNCHANGED <<client, lock, hashseed, events, posts, docs, index, tasks, states, now, agents, claims, calls>>

\* await track_usage(success=True), then the response: MCPResponse on the
\* REST endpoint; on the stream the result event, whose json.dumps runs
\* inside the try block.
TrackOk(s) ==
    /\ pc[s] = "track_ok"
    /\ LET tracked == TrackUsage(loc[s].tracked, TRUE, <<>>) IN
       IF loc[s].req.endpoint = "rest"
       THEN Return(s, [op |-> "response", endpoint |-> "rest", success |-> TRUE,
                       outcome |-> loc[s].outcome, tracked |-> tracked])
       ELSE IF JsonDumpsAccepts(loc[s].outcome.data)
       THEN Goto(s, "sse_done", [tracked |-> tracked,
                                 events |-> Append(loc[s].events, "result")] @@ loc[s])
       ELSE Goto(s, "track_fail",
                 [tracked |-> tracked,
                  error |-> <<"Object of type datetime is not JSON serializable">>]
                   @@ loc[s])
    /\ UNCHANGED <<client, lock, hashseed, events, posts, docs, index, tasks, states, now, agents, claims, calls>>

\* except Exception: await track_usage(success=False, error=str(e)), then the
\* sanitized error.
TrackFail(s) ==
    /\ pc[s] = "track_fail"
    /\ LET tracked == TrackUsage(loc[s].tracked, FALSE, loc[s].error) IN
       IF loc[s].req.endpoint = "rest"
       THEN Return(s, [op |-> "response", endpoint |-> "rest", success |-> FALSE,
                       error |-> sanitize_error_message(loc[s].error),
                       outcome |-> loc[s].outcome, tracked |-> tracked])
       ELSE Goto(s, "sse_done",
                 [tracked |-> tracked, events |-> Append(loc[s].events, "error"),
                  sent_error |-> sanitize_error_message(loc[s].error)] @@ loc[s])
    /\ UNCHANGED <<client, lock, hashseed, events, posts, docs, index, tasks, states, now, agents, claims, calls>>

\* An event generator that ends without the done event.
SseDoneMissing(s) ==
    /\ pc[s] = "sse_done"
    /\ Return(s, [op |-> "response", endpoint |-> "sse", events |-> loc[s].events,
                  success |-> ~("sent_error" \in DOMAIN loc[s]),
                  error |-> <<>>,
                  outcome |-> loc[s].outcome, tracked |-> loc[s].tracked])
    /\ UNCHANGED <<client, lock, hashseed, events, posts, docs, index, tasks, states, now, agents, claims, calls>>

\* Last yield of sse_event_generator.
SseDone(s) ==
    /\ pc[s] = "sse_done"
    /\ Return(s, [op |-> "response", endpoint |-> "sse",
                  events |-> Append(loc[s].events, "done"),
                  success |-> ~("sent_error" \in DOMAIN loc[s]),
                  error |-> IF "sent_error" \in DOMAIN loc[s]
                            THEN loc[s].sent_error ELSE <<>>,
                  outcome |-> loc[s].outcome, tracked |-> loc[s].tracked])
    /\ UNCHANGED <<client, lock, hashseed, events, posts, docs, index, tasks, states, now, agents, claims, calls>>

\* --------------------------------------- specification: REST / SSE gateway
\* Requests are independent of one another (no table of the model is
\* touched): they are served one at a time, in the first slot.
InitGateway == InitClaims

NextGateway ==
    \/ Quiet /\ GateBegin(1)
    \/ \E s \in Slots : GateScan(s)
    \/ \E s \in Slots : GateAuth(s)
    \/ \E s \in Slots : GateDenial(s)
    \/ \E s \in Slots : GateProject(s)
    \/ \E s \in Slots : GateRate(s)
    \/ \E s \in Slots : GateBundle(s)
    \/ \E s \in Slots : GateSettings(s)
    \/ \E s \in Slots : GateUsage(s)
    \/ \E s \in Slots : SseStart(s)
    \/ \E s \in Slots : Execute(s)
    \/ \E s \in Slots : TrackOk(s)
    \/ \E s \in Slots : TrackFail(s)
    \/ \E s \in Slots : SseDone(s)

SpecGateway == InitGateway /\ [][NextGateway]_vars

\* ------------------------------------------- team MCP transport (JSON-RPC)
\* id 0 stands for a request without id.
RpcIds == 0..MaxRpcId
RpcMethods == {"initialize", "tools/list", "tools/call", "ping", "unknown"}
RpcTools == {"rlm_multi_project_query", "rlm_ask"}

RpcRequests ==
    {r \in [id : RpcIds, method : RpcMethods, tool : RpcTools] :
       r.method # "tools/call" => r.tool = "rlm_multi_project_query"}

\* A parsed body: one request object, or an array of them.
RpcBodies ==
    {[batch |-> FALSE, reqs |-> <<r>>] : r \in RpcRequests}
      \cup {[batch |-> TRUE, reqs |-> q] :
              q \in UNION {[1..n -> RpcRequests] : n \in 0..MaxBatch}}

jsonrpc_response(id, result) == [id |-> id, result |-> result]

jsonrpc_error(id, code, message) == [id |-> id, code |-> code, message |-> message]

\* A request is answered with no response object whatever its id.
IsNotificationNever(req) == FALSE

\* `if id is None: return None`
IsNotification(req) == req.id = 0

\* The request needs the awaited tool execution.
NeedsExecution(req) ==
    /\ ~IsNotification(req)
    /\ req.method = "tools/call"
    /\ req.tool = "rlm_multi_project_query"

\* _handle_team_request for a request answered without tool execution; the
\* empty sequence stands for None.
HandleTeamRequest(req) ==
    IF IsNotification(req) THEN <<>>
    ELSE IF req.method = "initialize"
    THEN <<jsonrpc_response(req.id, "serverInfo")>>
    ELSE IF req.method = "tools/list"
    THEN <<jsonrpc_response(req.id, "tools")>>
    ELSE IF req.method = "tools/call"
    THEN <<jsonrpc_error(req.id, -32602, <<"Tool not available on team endpoint">>)>>
    ELSE IF req.method = "ping"
    THEN <<jsonrpc_response(req.id, "empty")>>
    ELSE <<jsonrpc_error(req.id, -32601, <<"Method not found">>)>>

\* The loop over the requests from position i, up to the first request
\* whose handling awaits the tool execution: the responses collected and
\* the position reached (Len(reqs) + 1 when the loop is over).
RECURSIVE RpcRun(_, _, _)
RpcRun(reqs, i, responses) ==
    IF i > Len(reqs) \/ NeedsExecution(reqs[i])
    THEN [i |-> i, responses |-> responses]
    ELSE RpcRun(reqs, i + 1, responses \o HandleTeamRequest(reqs[i]))

\* JSONResponse(responses) for a batch; JSONResponse(response) or 204 for a
\* single request.
RpcContinue(s, body, run) ==
    IF run.i <= Len(body.reqs)
    THEN Goto(s, "rpc_call", [body |-> body, i |-> run.i,
                              responses |-> run.responses] @@ loc[s])
    ELSE Return(s, [op |-> "rpc", body |-> body, responses |-> run.responses,
                    status |-> IF ~body.batch /\ run.responses = <<>>
                               THEN 204 ELSE 200])

HttpError(s, status, detail) ==
    Return(s, [op |-> "rpc_rejected", status |-> status, detail |-> detail])

\* team_mcp_transport_endpoint up to the team lookup.
RpcBegin(s) ==
    /\ Begin(s, MaxRpcCalls)
    /\ \E has_key, team_found, key_valid, rate_ok \in BOOLEAN :
         IF ~has_key
         THEN Return(s, [op |-> "rpc_rejected", status |-> 401,
                         detail |-> "Missing authentication."])
         ELSE Goto(s, "rpc_team", [op |-> "rpc", team_found |-> team_found,
                                   key_valid |-> key_valid, rate_ok |-> rate_ok])
    /\ UNCHANGED <<client, lock, hashseed, events, posts, docs, index, tasks, states, now, agents, claims>>

RpcTeam(s) ==
    /\ pc[s] = "rpc_team"
    /\ IF ~loc[s].team_found
       THEN HttpError(s, 404, "Team not found")
       ELSE Goto(s, "rpc_key", loc[s])
    /\ UNCHANGED <<client, lock, hashseed, events, posts, docs, index, tasks, states, now, agents, claims, calls>>

RpcKey(s) ==
    /\ pc[s] = "rpc_key"
    /\ IF ~loc[s].key_valid
       THEN HttpError(s, 401, "Invalid API key")
       ELSE Goto(s, "rpc_rate", loc[s])
    /\ UNCHANGED <<client, lock, hashseed, events, posts, docs, index, tasks, states, now, agents, claims, calls>>

RpcRate(s) ==
    /\ pc[s] = "rpc_rate"
    /\ IF ~loc[s].rate_ok
       THEN HttpError(s, 429, "Rate limit exceeded")
       ELSE Goto(s, "rpc_parse", loc[s])
    /\ UNCHANGED <<client, lock, hashseed, events, posts, docs, index, tasks, states, now, agents, claims, calls>>

\* body = await request.json(), then the loop up to its first await.
RpcParse(s) ==
    /\ pc[s] = "rpc_parse"
    /\ \/ Return(s, [op |-> "rpc_parse_error", status |-> 400,
                     responses |-> <<jsonrpc_error(0, -32700, <<"Parse error">>)>>])
       \/ \E body \in RpcBodies : RpcContinue(s, body, RpcRun(body.reqs, 1, <<>>))
    /\ UNCHANGED <<client, lock, hashseed, events, posts, docs, index, tasks, states, now, agents, claims, calls>>

\* What execute_multi_project_query does: it returns the payload, raises
\* HTTPException(400, detail=str(ValidationError)), or lets an exception
\* through.
TeamToolOutcomes ==
    {[kind |-> "returns"],
     [kind |-> "raises_http",
      error |-> <<"1 validation error for MultiProjectQueryParams">>]}
      \cup {[kind |-> "raises", error |-> <<f>>] : f \in Fragments}

\* _handle_team_call_tool after the awaited execution.
TeamCallResponse(id, o) ==
    IF o.kind = "returns"
    THEN jsonrpc_response(id, "content")
    ELSE jsonrpc_error(id, -32000, o.error)

RpcCall(s) ==
    /\ pc[s] = "rpc_call"
    /\ \E o \in TeamToolOutcomes :
         LET body == loc[s].body
             resp == TeamCallResponse(body.reqs[loc[s].i].id, o)
         IN  RpcContinue(s, body,
                         RpcRun(body.reqs, loc[s].i + 1, Append(loc[s].responses, resp)))
    /\ UNCHANGED <<client, lock, hashseed, events, posts, docs, index, tasks, states, now, agents, claims, calls>>

\* ------------------------------------ specification: team MCP transport
InitTeamRpc == InitClaims

NextTeamRpc ==
    \/ Quiet /\ RpcBegin(1)
    \/ \E s \in Slots : RpcTeam(s)
    \/ \E s \in Slots : RpcKey(s)
    \/ \E s \in Slots : RpcRate(s)
    \/ \E s \in Slots : RpcParse(s)
    \/ \E s \in Slots : RpcCall(s)

SpecTeamRpc == InitTeamRpc /\ [][NextTeamRpc]_vars

\* ------------------------------------------------------- webhook delivery
\* The model follows one webhook event of a workspace.
MaxWebhookCalls == 2

\* deliver_webhook_event's default max_retries.
max_retries == 3

\* What the integrator's endpoint does with one POST: a 2xx response, any
\* other response, or httpx.TimeoutException / httpx.RequestError.
PostOutcomes == {"2xx", "http_error", "request_error"}

\* create_webhook_event: the workspace has a webhook URL, the event row is
\* created and asyncio.create_task starts its delivery in the background.
CreateWebhookEvent(s) ==
    /\ events = <<>>
    /\ Begin(s, MaxWebhookCalls)
    /\ events' = Append(events, [status |-> "PENDING", attempts |-> 0])
    /\ Goto(s, "wh_find",
            [op |-> "deliver", event_id |-> Len(events) + 1, waits |-> <<>>])
    /\ UNCHANGED <<client, lock, hashseed, now, agents, claims, states, tasks, posts, docs, index>>

\* retry_failed_webhooks: every PENDING event with fewer than 3 attempts gets
\* a new delivery task.
RetryFailedWebhooks(s) ==
    /\ \E e \in DOMAIN events :
        /\ events[e].status = "PENDING"
        /\ events[e].attempts < 3
        /\ Begin(s, MaxWebhookCalls)
        /\ Goto(s, "wh_find",
                [op |-> "deliver", event_id |-> e, waits |-> <<>>])
    /\ UNCHANGED <<client, lock, hashseed, now, agents, claims, states, tasks, events, posts, docs,
                   index>>

\* deliver_webhook_event: find_first of the event with its workspace; without
\* a webhook URL the event is marked FAILED, otherwise attempt is computed
\* from the row just read.
DeliverFind(s) ==
    /\ pc[s] = "wh_find"
    /\ LET e == loc[s].event_id IN
       \E webhookUrl \in BOOLEAN :
        IF ~webhookUrl
        THEN /\ events' = [events EXCEPT ![e].status = "FAILED"]
             /\ Return(s, [op |-> "deliver", delivered |-> FALSE,
                           waits |-> loc[s].waits])
        ELSE /\ Goto(s, "wh_post",
                     [attempt |-> events[e].attempts + 1] @@ loc[s])
             /\ UNCHANGED events
    /\ UNCHANGED <<client, lock, hashseed, now, agents, claims, states, tasks, posts, docs, index,
                   calls>>

\* client.post and the branch taken on its outcome.
DeliverPost(s) ==
    /\ pc[s] = "wh_post"
    /\ posts' = Append(posts, loc[s].event_id)
    /\ \E o \in PostOutcomes :
        Goto(s, IF o = "2xx" THEN "wh_delivered"
                ELSE IF loc[s].attempt >= max_retries THEN "wh_failed"
                ELSE "wh_retry", loc[s])
    /\ UNCHANGED <<client, lock, hashseed, now, agents, claims, states, tasks, events, docs, index,
                   calls>>

\* The update after a 2xx response.
DeliverMarkDelivered(s) ==
    /\ pc[s] = "wh_delivered"
    /\ events' = [events EXCEPT ![loc[s].event_id] =
                    [status |-> "DELIVERED", attempts |-> loc[s].attempt]]
    /\ Return(s, [op |-> "deliver", delivered |-> TRUE,
                  waits |-> loc[s].waits])
    /\ UNCHANGED <<client, lock, hashseed, now, agents, claims, states, tasks, posts, docs, index,
                   calls>>

\* The update after the last allowed attempt failed.
DeliverMarkFailed(s) ==
    /\ pc[s] = "wh_failed"
    /\ events' = [events EXCEPT ![loc[s].event_id] =
                    [status |-> "FAILED", attempts |-> loc[s].attempt]]
    /\ Return(s, [op |-> "deliver", delivered |-> FALSE,
                  waits |-> loc[s].waits])
    /\ UNCHANGED <<client, lock, hashseed, now, agents, claims, states, tasks, posts, docs, index,
                   calls>>

\* The update after a failed attempt that is not the last one: attempts is
\* written, status is left as it is.
DeliverMarkRetry(s) ==
    /\ pc[s] = "wh_retry"
    /\ events' = [events EXCEPT ![loc[s].event_id].attempts = loc[s].attempt]
    /\ Goto(s, "wh_sleep", loc[s])
    /\ UNCHANGED <<client, lock, hashseed, now, agents, claims, states, tasks, posts, docs, index,
                   calls>>

\* asyncio.sleep(2 ** attempt), then the recursive call.
DeliverSleep(s) ==
    /\ pc[s] = "wh_sleep"
    /\ Goto(s, "wh_find",
            [waits |-> Append(loc[s].waits, 2 ^ loc[s].attempt)] @@ loc[s])
    /\ UNCHANGED <<client, lock, hashseed, now, agents, claims, states, tasks, events, posts, docs,
                   index, calls>>

InitWebhook == InitClaims

NextWebhook ==
    \/ \E s \in Slots : CreateWebhookEvent(s)
    \/ \E s \in Slots : RetryFailedWebhooks(s)
    \/ \E s \in Slots : DeliverFind(s)
    \/ \E s \in Slots : DeliverPost(s)
    \/ \E s \in Slots : DeliverMarkDelivered(s)
    \/ \E s \in Slots : DeliverMarkFailed(s)
    \/ \E s \in Slots : DeliverMarkRetry(s)
    \/ \E s \in Slots : DeliverSleep(s)

SpecWebhook == InitWebhook /\ [][NextWebhook]_vars

\* -------------------------------------------------- documents and the index
MaxDocCalls == 3

ArgPaths == {"", "a.md", "b.md", "c.pdf"}  \* path arguments of upload
ArgContents == {"", "v1", "v2"}            \* content arguments of upload

\* hashlib.sha256(content.encode()).hexdigest() on the contents of the model.
Sha256(content) ==
    CASE content = "v1" -> "6fd4"
      [] content = "v2" -> "b1e6"
      [] OTHER -> "e3b0"

\* path.endswith((".md", ".txt", ".mdx")) on the paths of the model.
SupportedPath(path) == path \in {"a.md", "b.md"}

\* A db.document write either is applied or raises (a database error, or the
\* request being cancelled at the await) and is not applied.
DbWriteOutcomes == {"ok", "raises"}

\* The {path, content} objects a sync call can list.
SyncDocs ==
    {[path |-> "a.md", content |-> "v1"], [path |-> "a.md", content |-> "v2"],
     [path |-> "b.md", content |-> "v1"], [path |-> "c.pdf", content |-> "v1"],
     [path |-> "a.md", content |-> ""]}

\* The documents list of a sync call: no, one or two documents.
SyncLists ==
    {<<>>} \cup {<<d>> : d \in SyncDocs} \cup {<<d, e>> : d, e \in SyncDocs}

\* The id the database gives the next created row.
NextDocId(d) ==
    IF d = {} THEN 1
    ELSE 1 + (CHOOSE n \in {r.id : r \in d} : \A r \in d : r.id <= n)

\* db.document.find_first(where path): the oldest matching row, as a set with
\* at most one element.
FindFirstDoc(path) ==
    {r \in docs : r.path = path /\ \A q \in docs : q.path = path => r.id <= q.id}

\* db.document.update(where id, data content, hash).
UpdatedDocs(id, content) ==
    {IF r.id = id
     THEN [r EXCEPT !.content = content, !.hash = Sha256(content)]
     ELSE r : r \in docs}

\* db.document.create(data path, content, hash).
CreatedDocs(path, content) ==
    docs \cup {[id |-> NextDocId(docs), path |-> path, content |-> content,
                hash |-> Sha256(content)]}

\* What a DocumentIndex built now holds: the files and their contents.
IndexOf(d) == {[path |-> r.path, content |-> r.content] : r \in d}

\* handle_upload_document up to its first query: parameter and path checks.
UploadStart(s) ==
    /\ Begin(s, MaxDocCalls)
    /\ \E path \in ArgPaths, content \in ArgContents :
        IF path = "" \/ content = ""
        THEN Return(s, [op |-> "upload", action |-> "error",
                        error |-> "missing required parameter(s)"])
        ELSE IF ~SupportedPath(path)
        THEN Return(s, [op |-> "upload", action |-> "error",
                        error |-> "Only .md, .txt, .mdx files are supported"])
        ELSE Goto(s, "up_find", [op |-> "upload", path |-> path,
                                 content |-> content,
                                 content_hash |-> Sha256(content)])
    /\ UNCHANGED <<client, lock, hashseed, now, agents, claims, states, tasks, events, posts, docs,
                   index>>

\* find_first answered: an existing document whose hash equals content_hash
\* always takes the update branch.
UploadFindNoHashCheck(s) ==
    /\ pc[s] = "up_find"
    /\ LET existing == FindFirstDoc(loc[s].path) IN
        IF existing # {}
        THEN Goto(s, "up_update",
                  [id |-> (CHOOSE r \in existing : TRUE).id] @@ loc[s])
        ELSE Goto(s, "up_create", loc[s])
    /\ UNCHANGED <<client, lock, hashseed, now, agents, claims, states, tasks, events, posts, docs,
                   index, calls>>

\* find_first answered: unchanged when the stored hash equals content_hash,
\* otherwise on to the update or create.
UploadFind(s) ==
    /\ pc[s] = "up_find"
    /\ LET existing == FindFirstDoc(loc[s].path) IN
        IF existing # {}
        THEN LET e == CHOOSE r \in existing : TRUE IN
             IF e.hash = loc[s].content_hash
             THEN Return(s, [op |-> "upload", action |-> "unchanged",
                             path |-> loc[s].path,
                             hash |-> loc[s].content_hash])
             ELSE Goto(s, "up_update", [id |-> e.id] @@ loc[s])
        ELSE Goto(s, "up_create", loc[s])
    /\ UNCHANGED <<client, lock, hashseed, now, agents, claims, states, tasks, events, posts, docs,
                   index, calls>>

\* db.document.update, then invalidate_index().
UploadUpdate(s) ==
    /\ pc[s] = "up_update"
    /\ \E o \in DbWriteOutcomes :
        IF o = "raises"
        THEN /\ Return(s, [op |-> "upload", action |-> "raised"])
             /\ UNCHANGED <<client, lock, hashseed, docs, index>>
        ELSE /\ docs' = UpdatedDocs(loc[s].id, loc[s].content)
             /\ index' = NoIndex
             /\ Return(s, [op |-> "upload", action |-> "updated",
                           path |-> loc[s].path,
                           hash |-> loc[s].content_hash])
    /\ UNCHANGED <<client, lock, hashseed, now, agents, claims, states, tasks, events, posts, calls>>

\* db.document.create, then invalidate_index().
UploadCreate(s) ==
    /\ pc[s] = "up_create"
    /\ \E o \in DbWriteOutcomes :
        IF o = "raises"
        THEN /\ Return(s, [op |-> "upload", action |-> "raised"])
             /\ UNCHANGED <<client, lock, hashseed, docs, index>>
        ELSE /\ docs' = CreatedDocs(loc[s].path, loc[s].content)
             /\ index' = NoIndex
             /\ Return(s, [op |-> "upload", action |-> "created",
                           path |-> loc[s].path,
                           hash |-> loc[s].content_hash])
    /\ UNCHANGED <<client, lock, hashseed, now, agents, claims, states, tasks, events, posts, calls>>

\* {doc.path: doc for doc in existing_docs}: of several rows with one path
\* the last one listed stays in the dict.
ExistingByPath(rows) ==
    [p \in {r.path : r \in rows} |->
        CHOOSE r \in rows :
            r.path = p /\ \A q \in rows : q.path = p => q.id <= r.id]

\* The sync loop from documents[i] up to the next document that needs a
\* write: invalid documents are skipped, unchanged ones are counted.
RECURSIVE SyncSkip(_)
SyncSkip(l) ==
    IF l.i > Len(l.documents) THEN l
    ELSE LET d == l.documents[l.i] IN
         IF d.path = "" \/ d.content = "" \/ ~SupportedPath(d.path)
         THEN SyncSkip([l EXCEPT !.i = @ + 1])
         ELSE IF /\ d.path \in DOMAIN l.existing_by_path
                 /\ l.existing_by_path[d.path].hash = Sha256(d.content)
         THEN SyncSkip([l EXCEPT !.i = @ + 1,
                                 !.synced_paths = @ \cup {d.path},
                                 !.unchanged = @ + 1])
         ELSE l

\* The existing paths the delete_missing loop has still to delete.
SyncMissing(l) ==
    {p \in DOMAIN l.existing_by_path :
        p \notin l.synced_paths /\ p \notin l.deleted_paths}

\* handle_sync_documents from locals l0 up to its next awaited write, or to
\* its end: invalidate_index() when anything was written, and the result.
SyncContinue(s, l0) ==
    LET l == SyncSkip(l0) IN
    IF l.i <= Len(l.documents)
    THEN Goto(s, "sync_write", l) /\ UNCHANGED index
    ELSE IF l.delete_missing /\ SyncMissing(l) # {}
    THEN Goto(s, "sync_delete", l) /\ UNCHANGED index
    ELSE /\ index' = IF l.created > 0 \/ l.updated > 0 \/ l.deleted > 0
                     THEN NoIndex ELSE index
         /\ Return(s, [op |-> "sync", action |-> "synced",
                       created |-> l.created, updated |-> l.updated,
                       unchanged |-> l.unchanged, deleted |-> l.deleted,
                       total |-> l.created + l.updated + l.unchanged])

\* handle_sync_documents up to its first query.
SyncStart(s) ==
    /\ Begin(s, MaxDocCalls)
    /\ \E documents \in SyncLists, delete_missing \in BOOLEAN :
        IF documents = <<>>
        THEN Return(s, [op |-> "sync", action |-> "error",
                        error |-> "missing required parameter 'documents'"])
        ELSE Goto(s, "sync_find", [op |-> "sync", documents |-> documents,
                                   delete_missing |-> delete_missing])
    /\ UNCHANGED <<client, lock, hashseed, now, agents, claims, states, tasks, events, posts, docs,
                   index>>

\* find_many answered.
SyncFindMany(s) ==
    /\ pc[s] = "sync_find"
    /\ SyncContinue(s, [existing_by_path |-> ExistingByPath(docs),
                        synced_paths |-> {}, deleted_paths |-> {}, i |-> 1,
                        created |-> 0, updated |-> 0, unchanged |-> 0,
                        deleted |-> 0] @@ loc[s])
    /\ UNCHANGED <<client, lock, hashseed, now, agents, claims, states, tasks, events, posts, docs,
                   calls>>

\* The update or create of documents[i]; an exception leaves the handler.
SyncWrite(s) ==
    /\ pc[s] = "sync_write"
    /\ LET l == loc[s]
           d == l.documents[l.i]
           l1 == [l EXCEPT !.i = @ + 1, !.synced_paths = @ \cup {d.path}]
       IN
       \E o \in DbWriteOutcomes :
        IF o = "raises"
        THEN /\ Return(s, [op |-> "sync", action |-> "raised"])
             /\ UNCHANGED <<client, lock, hashseed, docs, index>>
        ELSE IF d.path \in DOMAIN l.existing_by_path
        THEN /\ docs' = UpdatedDocs(l.existing_by_path[d.path].id, d.content)
             /\ SyncContinue(s, [l1 EXCEPT !.updated = @ + 1])
        ELSE /\ docs' = CreatedDocs(d.path, d.content)
             /\ SyncContinue(s, [l1 EXCEPT !.created = @ + 1])
    /\ UNCHANGED <<client, lock, hashseed, now, agents, claims, states, tasks, events, posts, calls>>

\* One db.document.delete of the delete_missing loop.
SyncDelete(s) ==
    /\ pc[s] = "sync_delete"
    /\ LET l == loc[s] IN
       \E p \in SyncMissing(l), o \in DbWriteOutcomes :
        IF o = "raises"
        THEN /\ Return(s, [op |-> "sync", action |-> "raised"])
             /\ UNCHANGED <<client, lock, hashseed, docs, index>>
        ELSE /\ docs' = {r \in docs : r.id # l.existing_by_path[p].id}
             /\ SyncContinue(s, [l EXCEPT !.deleted = @ + 1,
                                          !.deleted_paths = @ \cup {p}])
    /\ UNCHANGED <<client, lock, hashseed, now, agents, claims, states, tasks, events, posts, calls>>

\* A query tool: the cached DocumentIndex answers; when none is cached the
\* index is loaded from the project's documents and cached.
QueryIndex(s) ==
    /\ Begin(s, MaxDocCalls)
    /\ index' = IF index.built THEN index
                ELSE [built |-> TRUE, files |-> IndexOf(docs)]
    /\ Return(s, [op |-> "query", files |-> index'.files])
    /\ UNCHANGED <<client, lock, hashseed, now, agents, claims, states, tasks, events, posts, docs>>

InitDocuments == InitClaims

\* Document tools and queries, one call at a time.
NextDocuments ==
    \/ Quiet /\ UploadStart(1)
    \/ \E s \in Slots : UploadFind(s)
    \/ \E s \in Slots : UploadUpdate(s)
    \/ \E s \in Slots : UploadCreate(s)
    \/ Quiet /\ SyncStart(1)
    \/ \E s \in Slots : SyncFindMany(s)
    \/ \E s \in Slots : SyncWrite(s)
    \/ \E s \in Slots : SyncDelete(s)
    \/ Quiet /\ QueryIndex(1)

SpecDocuments == InitDocuments /\ [][NextDocuments]_vars

\* ---------------------------------------------------- database connection
MaxDbCalls == 3

\* db.py's reconnection settings.
MAX_RETRIES == 3
RETRY_DELAY_SECONDS == 1

\* Leaving the `async with _lock` block.
Unlock == lock' = 0

\* get_db up to `async with _lock`: the caller queues for the lock.
GetDbBegin(s) ==
    /\ Begin(s, MaxDbCalls)
    /\ Goto(s, "db_lock", [op |-> "get_db", call |-> calls + 1, stale |-> FALSE,
                           attempt |-> 0, delays |-> <<>>])
    /\ UNCHANGED <<hashseed, now, agents, claims, states, tasks, events, posts,
                   docs,
                   index, client, lock>>

\* get_db that enters its critical section without waiting for the lock.
DbAcquireNoLock(s) ==
    /\ pc[s] = "db_lock"
    /\ lock' = s
    /\ Goto(s, IF client # NoClient THEN "db_check" ELSE "db_connect", loc[s])
    /\ UNCHANGED <<hashseed, now, agents, claims, states, tasks, events, posts,
                   docs,
                   index, client, calls>>

\* The lock is acquired when it is free; with a client present the liveness
\* query is issued, otherwise _create_client starts.
DbAcquire(s) ==
    /\ pc[s] = "db_lock"
    /\ lock = 0
    /\ lock' = s
    /\ Goto(s, IF client # NoClient THEN "db_check" ELSE "db_connect", loc[s])
    /\ UNCHANGED <<hashseed, now, agents, claims, states, tasks, events, posts,
                   docs,
                   index, client, calls>>

\* _is_connected answered: a live client is returned, a stale one is on its
\* way to disconnect.
DbIsConnected(s) ==
    /\ pc[s] = "db_check"
    /\ IF client.connected
       THEN /\ Return(s, [op |-> "get_db", client |-> client.id,
                          stale |-> FALSE, delays |-> <<>>])
            /\ Unlock
       ELSE /\ Goto(s, "db_disconnect", [stale |-> TRUE] @@ loc[s])
            /\ UNCHANGED lock
    /\ UNCHANGED <<hashseed, now, agents, claims, states, tasks, events, posts,
                   docs,
                   index, client, calls>>

\* _client.disconnect() returned or raised; _client = None and
\* _create_client starts.
DbDisconnect(s) ==
    /\ pc[s] = "db_disconnect"
    /\ client' = NoClient
    /\ Goto(s, "db_connect", loc[s])
    /\ UNCHANGED <<hashseed, now, agents, claims, states, tasks, events, posts,
                   docs,
                   index, lock, calls>>

\* One pass of the loop of _create_client: connect succeeds and the client
\* becomes _client, or it fails and the loop sleeps or, after the last
\* attempt, raises.
DbConnect(s) ==
    /\ pc[s] = "db_connect"
    /\ \E connects \in BOOLEAN :
        IF connects
        THEN /\ client' = [id |-> loc[s].call, connected |-> TRUE]
             /\ Return(s, [op |-> "get_db", client |-> loc[s].call,
                           stale |-> loc[s].stale, delays |-> loc[s].delays])
             /\ Unlock
        ELSE IF loc[s].attempt < MAX_RETRIES - 1
        THEN /\ Goto(s, "db_sleep",
                     [delays |-> Append(loc[s].delays,
                                        RETRY_DELAY_SECONDS * 2 ^ loc[s].attempt)]
                     @@ loc[s])
             /\ UNCHANGED <<client, lock>>
        ELSE /\ Return(s, [op |-> "get_db", raised |-> TRUE,
                           attempts |-> loc[s].attempt + 1,
                           stale |-> loc[s].stale, delays |-> loc[s].delays])
             /\ Unlock
             /\ UNCHANGED client
    /\ UNCHANGED <<hashseed, now, agents, claims, states, tasks, events, posts,
                   docs,
                   index, calls>>

\* asyncio.sleep(delay) is over: the next pass of the loop.
DbSleep(s) ==
    /\ pc[s] = "db_sleep"
    /\ Goto(s, "db_connect", [attempt |-> loc[s].attempt + 1] @@ loc[s])
    /\ UNCHANGED <<hashseed, now, agents, claims, states, tasks, events, posts,
                   docs,
                   index, client, lock, calls>>

\* close_db up to `async with _lock`.
CloseDbBegin(s) ==
    /\ Begin(s, MaxDbCalls)
    /\ Goto(s, "close_lock", [op |-> "close_db"])
    /\ UNCHANGED <<hashseed, now, agents, claims, states, tasks, events, posts,
                   docs,
                   index, client, lock>>

\* close_db holds the lock: without client it returns, otherwise it
\* disconnects.
CloseDbAcquire(s) ==
    /\ pc[s] = "close_lock"
    /\ lock = 0
    /\ IF client = NoClient
       THEN Return(s, [op |-> "close_db"]) /\ UNCHANGED lock
       ELSE Goto(s, "close_disconnect", loc[s]) /\ lock' = s
    /\ UNCHANGED <<hashseed, now, agents, claims, states, tasks, events, posts,
                   docs,
                   index, client, calls>>

\* disconnect returned or raised; finally _client = None.
CloseDbDisconnect(s) ==
    /\ pc[s] = "close_disconnect"
    /\ client' = NoClient
    /\ Return(s, [op |-> "close_db"])
    /\ Unlock
    /\ UNCHANGED <<hashseed, now, agents, claims, states, tasks, events, posts,
                   docs,
                   index, calls>>

\* The server closes the idle connection of the current client.
ConnectionDrops ==
    /\ client.connected
    /\ client' = [client EXCEPT !.connected = FALSE]
    /\ UNCHANGED <<hashseed, now, agents, claims, states, tasks, events, posts,
                   docs,
                   index, lock, pc, loc, res, calls>>

InitDb == InitClaims

NextDb ==
    \/ \E s \in Slots : GetDbBegin(s)
    \/ \E s \in Slots : DbAcquire(s)
    \/ \E s \in Slots : DbIsConnected(s)
    \/ \E s \in Slots : DbDisconnect(s)
    \/ \E s \in Slots : DbConnect(s)
    \/ \E s \in Slots : DbSleep(s)
    \/ \E s \in Slots : CloseDbBegin(s)
    \/ \E s \in Slots : CloseDbAcquire(s)
    \/ \E s \in Slots : CloseDbDisconnect(s)
    \/ ConnectionDrops

SpecDb == InitDb /\ [][NextDb]_vars

\* ------------------------------------------------------------ hybrid scoring
\* src/engine/scoring: keyword scorer, query classifier, reciprocal rank
\* fusion and graded normalization.  Texts are lower-case strings.  A float
\* is a fixed-point number: keyword and semantic scores in thousandths, the
\* factors of the normalization in millionths, a fused score as the exact
\* fraction num/den.  Truncation is monotone, as IEEE rounding is.
MaxScoringCalls == 2
NumSections == 18     \* sections of the large index

\* str.startswith / str.endswith
StartsWith(text, pre) ==
    /\ Len(pre) <= Len(text)
    /\ SubSeq(text, 1, Len(pre)) = pre

EndsWith(text, suf) ==
    /\ Len(suf) <= Len(text)
    /\ SubSeq(text, Len(text) - Len(suf) + 1, Len(text)) = suf

\* word[:-n]
DropLast(word, n) == SubSeq(word, 1, Len(word) - n)

\* str.count: the occurrences of pat in text that do not overlap, counted
\* from position i on.
RECURSIVE CountFrom(_, _, _)
CountFrom(text, pat, i) ==
    IF i + Len(pat) - 1 > Len(text) THEN 0
    ELSE IF SubSeq(text, i, i + Len(pat) - 1) = pat
         THEN 1 + CountFrom(text, pat, i + Len(pat))
         ELSE CountFrom(text, pat, i + 1)

Count(text, pat) == CountFrom(text, pat, 1)

\* `pat in text`
Contains(text, pat) == Count(text, pat) > 0

\* re.split(r"[^\w]+", text): the words of a text whose separators are
\* single spaces, the word under construction being cur.
RECURSIVE SplitFrom(_, _, _)
SplitFrom(text, i, cur) ==
    IF i > Len(text) THEN (IF cur = "" THEN <<>> ELSE <<cur>>)
    ELSE IF SubSeq(text, i, i) = " "
         THEN (IF cur = "" THEN <<>> ELSE <<cur>>) \o SplitFrom(text, i + 1, "")
         ELSE SplitFrom(text, i + 1, cur \o SubSeq(text, i, i))

Words(text) == SplitFrom(text, 1, "")

\* " ".join(words)
RECURSIVE Join(_)
Join(words) ==
    IF words = <<>> THEN ""
    ELSE IF Len(words) = 1 THEN words[1]
    ELSE words[1] \o " " \o Join(Tail(words))

Range(f) == {f[i] : i \in DOMAIN f}

STOP_WORDS ==
    {"a", "about", "above", "after", "again", "all", "also", "an", "and",
     "any", "are", "as", "at", "be", "because", "been", "before", "being",
     "below", "between", "both", "but", "by", "can", "core", "could", "did",
     "do", "does", "during", "each", "everything", "feature", "features",
     "few", "for", "from", "further", "get", "gets", "getting", "had", "has",
     "have", "her", "here", "his", "how", "if", "in", "into", "is", "it",
     "its", "just", "key", "know", "knowing", "knows", "like", "likes",
     "main", "make", "makes", "making", "many", "may", "might", "more",
     "most", "much", "my", "need", "no", "nor", "not", "of", "off", "on",
     "once", "only", "or", "other", "our", "out", "over", "own", "primary",
     "proposition", "same", "see", "seeing", "sees", "shall", "should", "so",
     "some", "something", "such", "than", "that", "the", "their", "then",
     "there", "these", "thing", "things", "think", "thinks", "this", "those",
     "through", "to", "too", "under", "up", "use", "used", "using", "value",
     "very", "want", "wanting", "wants", "was", "were", "what", "when",
     "where", "which", "who", "whom", "why", "will", "with", "work",
     "working", "works", "would", "your"}

GENERIC_TITLE_TERMS ==
    {"snipara", "rlm", "mcp", "tools", "tool", "guide", "reference",
     "overview", "docs", "how", "what", "when", "where", "why", "using",
     "use", "get", "set", "run", "make", "available", "not", "error",
     "issue", "troubleshoot"}

SPECIFIC_QUERY_TERMS ==
    {"pricing", "price", "cost", "tier", "plan", "stack", "version", "model",
     "schema", "table", "endpoint", "api", "command", "config", "database",
     "deploy", "deployment", "auth", "authentication", "value",
     "proposition", "feature", "benefit", "overview", "architecture",
     "workflow", "integration", "limit", "rate", "hybrid", "semantic",
     "keyword", "search", "query", "token", "context", "chunk", "section",
     "document"}

CONCEPTUAL_PREFIXES ==
    {"how does", "how do", "how is", "how are", "how can", "why does",
     "why do", "why is", "why are", "what is", "what are", "what does",
     "what do", "explain", "describe", "compare", "tell me about",
     "overview of", "what happens when", "what is the difference",
     "what are the tradeoffs", "value proposition", "core value",
     "main purpose", "key features"}

\* The entry of QUERY_EXPANSIONS that the queries of the model reach, lower
\* case as expand_keywords appends it.
QUERY_EXPANSIONS ==
    [pricing |-> <<"free", "pro", "team", "enterprise", "$19", "$49", "$499",
                   "queries/mo", "100", "5000", "20000">>]

\* stem_keyword
stem_keyword(word) ==
    IF Len(word) > 7 /\ EndsWith(word, "tion") THEN DropLast(word, 4)
    ELSE IF Len(word) > 7 /\ EndsWith(word, "ment") THEN DropLast(word, 4)
    ELSE IF Len(word) > 7 /\ EndsWith(word, "ness") THEN DropLast(word, 4)
    ELSE IF Len(word) > 7 /\ EndsWith(word, "ible") THEN DropLast(word, 4)
    ELSE IF Len(word) > 7 /\ EndsWith(word, "able") THEN DropLast(word, 4)
    ELSE IF Len(word) > 6 /\ EndsWith(word, "ing") THEN DropLast(word, 3)
    ELSE IF Len(word) > 6 /\ EndsWith(word, "ies") THEN DropLast(word, 3)
    ELSE IF Len(word) > 5 /\ EndsWith(word, "ed") /\ ~EndsWith(word, "eed")
         THEN DropLast(word, 2)
    ELSE IF Len(word) > 5 /\ EndsWith(word, "er") THEN DropLast(word, 2)
    ELSE IF Len(word) > 5 /\ EndsWith(word, "ly") THEN DropLast(word, 2)
    ELSE IF Len(word) > 5 /\ EndsWith(word, "es") THEN DropLast(word, 2)
    ELSE IF Len(word) > 4 /\ EndsWith(word, "s") /\ ~EndsWith(word, "ss")
         THEN DropLast(word, 1)
    ELSE IF Len(word) > 4 /\ EndsWith(word, "e") /\ ~EndsWith(word, "ee")
         THEN DropLast(word, 1)
    ELSE word

\* extract_keywords
RECURSIVE KeepKeywords(_)
KeepKeywords(words) ==
    IF words = <<>> THEN <<>>
    ELSE (IF Len(words[1]) >= 2 /\ words[1] \notin STOP_WORDS
          THEN <<words[1]>> ELSE <<>>) \o KeepKeywords(Tail(words))

extract_keywords(query) == KeepKeywords(Words(query))

\* The expansions of one key that are not in the list yet, appended.
RECURSIVE AppendUnseen(_, _)
AppendUnseen(expanded, expansions) ==
    IF expansions = <<>> THEN expanded
    ELSE AppendUnseen(IF expansions[1] \in Range(expanded) THEN expanded
                      ELSE Append(expanded, expansions[1]),
                      Tail(expansions))

\* The two-word phrases of expand_keywords from position j on.
RECURSIVE ExpandPhrases(_, _, _)
ExpandPhrases(keywords, j, expanded) ==
    IF j >= Len(keywords) THEN expanded
    ELSE LET phrase == keywords[j] \o " " \o keywords[j + 1]
         IN  ExpandPhrases(keywords, j + 1,
                IF phrase \in DOMAIN QUERY_EXPANSIONS
                THEN AppendUnseen(expanded, QUERY_EXPANSIONS[phrase])
                ELSE expanded)

\* expand_keywords from keyword i on: the keyword's own expansions, then
\* those of every two-word phrase.
RECURSIVE ExpandFrom(_, _, _)
ExpandFrom(keywords, i, expanded) ==
    IF i > Len(keywords) THEN expanded
    ELSE ExpandFrom(keywords, i + 1,
            ExpandPhrases(keywords, 1,
                IF keywords[i] \in DOMAIN QUERY_EXPANSIONS
                THEN AppendUnseen(expanded, QUERY_EXPANSIONS[keywords[i]])
                ELSE expanded))

expand_keywords(keywords) == ExpandFrom(keywords, 1, keywords)

\* length_norm of a content of n characters, in thousandths:
\* 1 / (1 + 0.75 * (n / 2000 - 1)) = 8000 / (2000 + 3 n), at least 0.15.
LengthNorm(n) ==
    LET norm == 8000000 \div (2000 + 3 * n)
    IN  IF norm > 150 THEN norm ELSE 150

\* The keyword loop of calculate_keyword_score from keyword i on: the score
\* in thousandths and the number of keywords that hit the title.
RECURSIVE KeywordLoop(_, _, _, _)
KeywordLoop(section, keywords, i, acc) ==
    IF i > Len(keywords) THEN acc
    ELSE
      LET keyword == keywords[i]
          stem == stem_keyword(keyword)
          exact_title == Count(section.title, keyword)
          title_count == IF exact_title = 0 /\ stem # keyword
                         THEN Count(section.title, stem) ELSE exact_title
          title_weight == IF keyword \in GENERIC_TITLE_TERMS
                             \/ stem \in GENERIC_TITLE_TERMS
                          THEN 1500 ELSE 5000
          exact_content == Count(section.content, keyword)
          content_count == IF exact_content = 0 /\ stem # keyword
                           THEN Count(section.content, stem) ELSE exact_content
      IN  IF Len(keyword) < 2 THEN KeywordLoop(section, keywords, i + 1, acc)
          ELSE KeywordLoop(section, keywords, i + 1,
                 [score |-> acc.score + title_count * title_weight
                              + content_count * LengthNorm(Len(section.content)),
                  title_keyword_hits |->
                      acc.title_keyword_hits + (IF title_count > 0 THEN 1 ELSE 0)])

\* keywords[:n]
Take(seq, n) == SubSeq(seq, 1, IF n < Len(seq) THEN n ELSE Len(seq))

\* [w for w in keywords if len(w) >= 3]
RECURSIVE LongWords(_)
LongWords(keywords) ==
    IF keywords = <<>> THEN <<>>
    ELSE (IF Len(keywords[1]) >= 3 THEN <<keywords[1]>> ELSE <<>>)
            \o LongWords(Tail(keywords))

\* calculate_keyword_score with is_list_query_flag at its default False, in
\* thousandths.
calculate_keyword_score(section, keywords) ==
    LET loop == KeywordLoop(section, keywords, 1,
                            [score |-> 0, title_keyword_hits |-> 0])
        level_bonus == (IF 4 - section.level > 0 THEN 4 - section.level ELSE 0) * 500
        with_level == IF loop.score > 0 THEN loop.score + level_bonus ELSE loop.score
        covered == IF loop.title_keyword_hits >= 2
                   THEN with_level * (1 + 2 * loop.title_keyword_hits)
                   ELSE with_level
        query_words == LongWords(keywords)
        query_phrase == Join(Take(query_words, 4))
    IN  IF Len(query_words) >= 2 /\ Contains(section.title, query_phrase)
        THEN covered * 3 ELSE covered

\* A section id stands for the str the code uses as id.  A dict of scores is
\* a function on ids whose keys were inserted in the order of the index;
\* dict.items() from id i on, a score x being the fraction x/1.
RECURSIVE ItemsFrom(_, _)
ItemsFrom(d, i) ==
    IF i > NumSections THEN <<>>
    ELSE (IF i \in DOMAIN d THEN <<[sid |-> i, num |-> d[i], den |-> 1]>>
          ELSE <<>>) \o ItemsFrom(d, i + 1)

Items(d) == ItemsFrom(d, 1)

\* a > b for fractions with positive denominators
Greater(a, b) == a.num * b.den > b.num * a.den

\* list.sort(key=score, reverse=True) is stable: x goes behind every entry
\* that is not smaller.
RECURSIVE InsertDesc(_, _)
InsertDesc(sorted, x) ==
    IF sorted = <<>> THEN <<x>>
    ELSE IF Greater(x, sorted[1]) THEN <<x>> \o sorted
    ELSE <<sorted[1]>> \o InsertDesc(Tail(sorted), x)

RECURSIVE SortDescInto(_, _)
SortDescInto(sorted, rest) ==
    IF rest = <<>> THEN sorted
    ELSE SortDescInto(InsertDesc(sorted, rest[1]), Tail(rest))

SortDesc(seq) == SortDescInto(<<>>, seq)

\* ((sid, sc) for sid, sc in scores.items() if sc > 0)
RECURSIVE Positive(_)
Positive(items) ==
    IF items = <<>> THEN <<>>
    ELSE (IF items[1].num > 0 THEN <<items[1]>> ELSE <<>>)
            \o Positive(Tail(items))

\* {sid: rank for rank, (sid, _) in enumerate(ranked, start=1)}
RankOf(ranked) ==
    [sid \in {ranked[r].sid : r \in DOMAIN ranked} |->
        CHOOSE r \in DOMAIN ranked : ranked[r].sid = sid]

\* hash(sid) under the interpreter's salt: a set of str iterates in the order
\* of the hashes of its members, which changes with the salt.
StrHash(seed, sid) == (sid * (seed + 1)) % 23

HashSeeds == {0, 1}

RECURSIVE IterateFrom(_, _, _)
IterateFrom(ids, seed, h) ==
    IF h > 22 THEN <<>>
    ELSE (IF \E sid \in ids : StrHash(seed, sid) = h
          THEN <<CHOOSE sid \in ids : StrHash(seed, sid) = h>> ELSE <<>>)
            \o IterateFrom(ids, seed, h + 1)

\* `for sid in all_ids`
SetIteration(ids, seed) == IterateFrom(ids, seed, 0)

RRF_K == 45

\* Weight profiles (keyword_weight, semantic_weight), in twentieths.
HYBRID_KEYWORD_HEAVY == <<12, 8>>
HYBRID_BALANCED == <<8, 12>>
HYBRID_SEMANTIC_HEAVY == <<5, 15>>

\* classify_query_weights
classify_query_weights(query, keyword_scores) ==
    LET query_words == {w \in Range(Words(query)) : Len(w) > 2}
        kw_values == SortDesc(Positive(Items(keyword_scores)))
        top_kw == kw_values[1].num
        \* sorted(kw_values)[len(kw_values) // 2]
        median_kw == kw_values[Len(kw_values) - (Len(kw_values) \div 2)].num
        strong_keyword ==
            /\ kw_values # <<>>
            /\ top_kw > 15000
            /\ (median_kw = 0 \/ top_kw >= 3 * median_kw)
        stemmed_words == {stem_keyword(w) : w \in query_words}
        has_specific ==
            (query_words \cup stemmed_words) \cap SPECIFIC_QUERY_TERMS # {}
        is_conceptual == \E p \in CONCEPTUAL_PREFIXES : StartsWith(query, p)
    IN  IF strong_keyword /\ has_specific THEN HYBRID_KEYWORD_HEAVY
        ELSE IF strong_keyword THEN HYBRID_BALANCED
        ELSE IF is_conceptual THEN HYBRID_SEMANTIC_HEAVY
        ELSE HYBRID_BALANCED

\* The loop of rrf_fusion over the ids in iteration order; the score
\* w_kw / (k + rk) + w_sem / (k + rs), in twentieths, as one fraction.
RECURSIVE FuseEach(_, _, _, _)
FuseEach(order, kw_rank, sem_rank, weights) ==
    IF order = <<>> THEN <<>>
    ELSE LET sid == order[1]
             rk == IF sid \in DOMAIN kw_rank THEN kw_rank[sid]
                   ELSE Cardinality(DOMAIN kw_rank) + 1
             rs == IF sid \in DOMAIN sem_rank THEN sem_rank[sid]
                   ELSE Cardinality(DOMAIN sem_rank) + 1
         IN  <<[sid |-> sid,
                num |-> weights[1] * (RRF_K + rs) + weights[2] * (RRF_K + rk),
                den |-> (RRF_K + rk) * (RRF_K + rs)]>>
               \o FuseEach(Tail(order), kw_rank, sem_rank, weights)

\* rrf_fusion
rrf_fusion(keyword_scores, semantic_scores, weights) ==
    LET kw_rank == RankOf(SortDesc(Positive(Items(keyword_scores))))
        sem_rank == RankOf(SortDesc(Positive(Items(semantic_scores))))
        all_ids == DOMAIN kw_rank \cup DOMAIN sem_rank
    IN  SortDesc(FuseEach(SetIteration(all_ids, hashseed),
                          kw_rank, sem_rank, weights))

\* decay_factor ** i for decay_factor = 0.94, in millionths
RECURSIVE DecayPower(_)
DecayPower(i) == IF i = 0 THEN 1000000 ELSE (DecayPower(i - 1) * 94) \div 100

\* a / b in millionths: n pairs of decimals by long division
RECURSIVE Quotient(_, _, _)
Quotient(a, b, n) ==
    IF n = 0 THEN 0
    ELSE ((a * 100) \div b) * 100 ^ (n - 1) + Quotient((a * 100) % b, b, n - 1)

\* round(x, 1) of x given in millionths, in tenths; halves go to the even
\* neighbour.
RoundTenths(x) ==
    LET t == x \div 100000
        r == x % 100000
    IN  IF r > 50000 \/ (r = 50000 /\ t % 2 = 1) THEN t + 1 ELSE t

\* The loop of normalize_scores_graded from position i on: scores in tenths.
RECURSIVE GradeFrom(_, _, _)
GradeFrom(scores, top_score, i) ==
    IF i > Len(scores) THEN <<>>
    ELSE LET rank_factor == DecayPower(i - 1)
             score_factor == Quotient(scores[i].num * top_score.den,
                                      scores[i].den * top_score.num, 3)
             graded == 40 * rank_factor + 60 * score_factor
             rounded == RoundTenths(graded)
         IN  <<[sid |-> scores[i].sid,
                score |-> IF rounded > 10 THEN rounded ELSE 10]>>
               \o GradeFrom(scores, top_score, i + 1)

\* normalize_scores_graded dividing by the last raw score instead of the
\* first.
normalize_scores_by_last(scores) ==
    IF scores = <<>> THEN <<>>
    ELSE LET top_score == scores[Len(scores)]
         IN  <<[sid |-> scores[1].sid, score |-> 1000]>>
               \o GradeFrom(scores, top_score, 2)

\* normalize_scores_graded with decay_factor at its default 0.94
normalize_scores_graded(scores) ==
    IF scores = <<>> THEN <<>>
    ELSE LET top_score == IF scores[1].num > 0 THEN scores[1]
                          ELSE [sid |-> scores[1].sid, num |-> 20, den |-> 1]
         IN  <<[sid |-> scores[1].sid, score |-> 1000]>>
               \o GradeFrom(scores, top_score, 2)

\* hybrid_search with normalize at its default True
hybrid_search(keyword_scores, semantic_scores, query) ==
    normalize_scores_graded(
        rrf_fusion(keyword_scores, semantic_scores,
                   classify_query_weights(query, keyword_scores)))

\* ---- inputs
SearchQueries == {"pricing tiers", "explain the design"}

\* The two sections of a small project: "## Pricing" and "## Architecture",
\* whose body mentions "pricing" once.
Pricing == 1
Architecture == 2

PricingCorpus ==
    [sid \in {Pricing, Architecture} |->
        IF sid = Pricing
        THEN [title |-> "pricing", level |-> 2,
              content |-> "$19 per month. free, pro, team, enterprise"]
        ELSE [title |-> "architecture", level |-> 2,
              content |-> "the server handles pricing in a separate module."]]

IndexSections == 1..NumSections

\* Keyword scores over the large index, in thousandths: falling with the
\* position in the index, one section far ahead; three sections that score
\* and one that does not; four sections that tie.
FlatKeywordScores == [sid \in IndexSections |-> 1000 * (NumSections + 1 - sid)]

PeakedKeywordScores ==
    [sid \in IndexSections |-> IF sid = 1 THEN 60000 ELSE FlatKeywordScores[sid]]

SparseKeywordScores == [sid \in 1..4 |-> IF sid = 4 THEN 0 ELSE 2000 * (4 - sid)]

TiedKeywordScores == [sid \in 1..4 |-> 5000]

KeywordScoreChoices ==
    {PeakedKeywordScores, SparseKeywordScores, TiedKeywordScores}

\* Cosine similarities over the large index, in thousandths: falling with
\* the position in the index, the similarities of two sections exchanged;
\* two sections only; none.
IndexSimilarity == [sid \in IndexSections |-> 1000 - 50 * sid]

Exchanged(scores, a, b) ==
    [sid \in DOMAIN scores |->
        IF sid = a THEN scores[b] ELSE IF sid = b THEN scores[a] ELSE scores[sid]]

NoScores == [sid \in {} |-> 0]

IndexSemanticChoices ==
    {Exchanged(IndexSimilarity, 3, 18), [sid \in {2, 5} |-> 1000 - 50 * sid],
     NoScores}

PricingSemanticChoices ==
    {[sid \in {Pricing, Architecture} |-> IF sid = Pricing THEN 900 ELSE 500],
     [sid \in {Pricing, Architecture} |-> IF sid = Pricing THEN 500 ELSE 900],
     NoScores}

\* ---- actions
\* The caller of hybrid_search has keyword scores over the large index.
GivenKeywordScores(s) ==
    /\ Begin(s, MaxScoringCalls)
    /\ \E query \in SearchQueries, keyword_scores \in KeywordScoreChoices :
         Goto(s, "hybrid_search",
              [op |-> "hybrid_search", corpus |-> "index", query |-> query,
               keyword_scores |-> keyword_scores])
    /\ UNCHANGED <<now, agents, claims, states, tasks, events, posts, docs,
                   index, client, lock, hashseed>>

\* calculate_keyword_score is applied to every section of the small
\* project, with the keywords of the query or with their expansion.
ScoreSections(s) ==
    /\ Begin(s, MaxScoringCalls)
    /\ \E query \in SearchQueries, expand \in BOOLEAN :
         LET keywords == IF expand
                         THEN expand_keywords(extract_keywords(query))
                         ELSE extract_keywords(query)
         IN  Goto(s, "hybrid_search",
                  [op |-> "hybrid_search", corpus |-> "pricing",
                   query |-> query,
                   keyword_scores |->
                       [sid \in DOMAIN PricingCorpus |->
                           calculate_keyword_score(PricingCorpus[sid], keywords)]])
    /\ UNCHANGED <<now, agents, claims, states, tasks, events, posts, docs,
                   index, client, lock, hashseed>>

\* hybrid_search runs with the similarities the semantic scorer reports.
HybridSearch(s) ==
    /\ pc[s] = "hybrid_search"
    /\ \E semantic_scores \in
            IF loc[s].corpus = "index" THEN IndexSemanticChoices
            ELSE PricingSemanticChoices :
         Return(s, [op |-> "hybrid_search", corpus |-> loc[s].corpus,
                    query |-> loc[s].query,
                    keyword_scores |-> loc[s].keyword_scores,
                    semantic_scores |-> semantic_scores,
                    ranking |-> hybrid_search(loc[s].keyword_scores,
                                              semantic_scores, loc[s].query)])
    /\ UNCHANGED <<now, agents, claims, states, tasks, events, posts, docs,
                   index, client, lock, hashseed, calls>>

\* The server process is started again: the new interpreter salts the
\* hashes of str anew.
RestartProcess ==
    /\ Quiet
    /\ \E seed \in HashSeeds \ {hashseed} : hashseed' = seed
    /\ UNCHANGED <<now, agents, claims, states, tasks, events, posts, docs,
                   index, client, lock, pc, loc, res, calls>>

\* ------------------------------------------ specification: hybrid scoring
InitScoring == InitClaims

NextScoring ==
    \/ \E s \in Slots : GivenKeywordScores(s)
    \/ \E s \in Slots : ScoreSections(s)
    \/ \E s \in Slots : HybridSearch(s)
    \/ RestartProcess

SpecScoring == InitScoring /\ [][NextScoring]_vars

\* ---------------------------------------------------- properties: claims
\* C1: in every reachable state every (swarm, resource_type, resource_id)
\* has at most one claim row whose status is ACTIVE.
AtMostOneActiveClaim ==
    \A r \in Resources : Cardinality(ActiveClaimRows(r)) <= 1

\* The ACTIVE rows a release request with locals l is aimed at, whoever
\* holds them.
ReleaseTargets(l) ==
    {c \in DOMAIN claims :
       /\ claims[c].status = "ACTIVE"
       /\ IF l.claim_id # 0 THEN c = l.claim_id ELSE claims[c].resource = l.resource}

\* C10: release_claim marks a claim RELEASED only when the caller's agent
\* row is the claim's holder, and touches no other row; a release aimed (by
\* claim_id or by resource) only at claims held by other agents fails and
\* leaves every claim row (status, holder, expiry) as it was.
ReleaseOnlyByHolder ==
    [][\A s \in Slots :
         /\ (pc[s] = "rel_update" /\ pc'[s] = "idle") =>
              /\ claims[loc[s].claim].agentId = loc[s].agent
              /\ res'[s].success
              /\ \A c \in DOMAIN claims : c # loc[s].claim => claims'[c] = claims[c]
         /\ (pc[s] = "rel_find" /\ pc'[s] # "rel_find"
               /\ \A c \in ReleaseTargets(loc[s]) : claims[c].agentId # loc[s].agent) =>
              /\ pc'[s] = "idle"
              /\ res'[s].op = "release" /\ ~res'[s].success
              /\ claims' = claims]_vars

\* C10 witness: a release by an agent that is not the holder has failed and
\* the claim it was aimed at is still ACTIVE.
ReleaseByOtherRefused ==
    \E s \in Slots, c \in DOMAIN claims :
       /\ res[s].op = "release" /\ ~res[s].success
       /\ res[s].error = "Claim not found or not owned by agent"
       /\ claims[c].status = "ACTIVE" /\ claims[c].agentId # res[s].agent

\* C11: claim, check, release, check.  The step in which acquire_claim
\* creates a claim for a free resource leaves its caller the only holder of
\* the resource; a check_claim that finds an unexpired ACTIVE claim reports
\* claimed = true with claimed_by the holder's agent id; the step in which
\* release_claim succeeds leaves the resource without ACTIVE claim; and a
\* check_claim of a resource without ACTIVE claim reports claimed = false.
ClaimCheckReleaseRoundTrip ==
    [][\A s \in Slots :
         /\ (pc[s] = "acq_create" /\ pc'[s] = "idle") =>
              /\ res'[s].success
              /\ {claims'[c].agentId :
                    c \in {d \in DOMAIN claims' :
                             /\ claims'[d].resource = loc[s].resource
                             /\ claims'[d].status = "ACTIVE"}} = {loc[s].agent}
         /\ (CheckFind(s) /\ pc'[s] = "idle") =>
              LET M == ActiveClaimRows(res'[s].resource) IN
              IF M = {}
              THEN ~res'[s].claimed
              ELSE /\ res'[s].claimed
                   /\ \A c \in M : res'[s].claimed_by = agents[claims[c].agentId].agentId
         /\ (pc[s] = "rel_update" /\ pc'[s] = "idle") =>
              /\ res'[s].success
              /\ \A d \in DOMAIN claims' :
                   claims'[d].resource = claims[loc[s].claim].resource
                   => claims'[d].status # "ACTIVE"]_vars

\* C11 witness: agent A's release of its claim has succeeded and the check
\* that followed reported the resource unclaimed.
CheckAfterReleaseUnclaimed ==
    \E s, t \in Slots, c \in DOMAIN claims :
       /\ res[s].op = "release" /\ res[s].success /\ res[s].claim_id = c
       /\ claims[c].status = "RELEASED"
       /\ agents[claims[c].agentId].agentId = "A"
       /\ res[t].op = "check" /\ ~res[t].claimed
       /\ res[t].resource = claims[c].resource

\* C12: in every reachable state every agent id has at most one active
\* SwarmAgent row in the swarm.
AtMostOneActiveAgentRow ==
    \A agent_id \in Agents : Cardinality(ActiveAgentRows(agent_id)) <= 1

\* ----------------------------------------------- properties: shared state
\* Two returned requests ran concurrently: one was in flight when the other
\* began.
Concurrent(r1, r2) == r1.call.id \in r2.call.with \/ r2.call.id \in r1.call.with

\* C2: of two set_state calls on the same stored key that run concurrently
\* and carry the same expected_version v, at most one returns success = true
\* (stated for calls that update the stored row: "State updated").
CasAtMostOneSucceeds ==
    \A s1, s2 \in Slots :
      (/\ s1 # s2
       /\ res[s1].op = "set_state" /\ res[s2].op = "set_state"
       /\ res[s1].call.key = res[s2].call.key
       /\ Concurrent(res[s1], res[s2])
       /\ res[s1].call.expected_version # NoVersion
       /\ res[s1].call.expected_version = res[s2].call.expected_version)
      => ~(/\ res[s1].success /\ res[s1].message = "State updated"
           /\ res[s2].success /\ res[s2].message = "State updated")

\* C7: a set_state call that carries an expected_version and finds the key
\* stored with another version returns a failure reporting current_version
\* (the stored version) and expected_version, and writes nothing: value,
\* version and updated_by of every row stay as they were.
ConflictReportedNothingWritten ==
    [][\A s \in Slots :
         (/\ pc[s] = "set_find" /\ pc'[s] # "set_find"
          /\ loc[s].call.expected_version # NoVersion
          /\ StateRows(loc[s].call.key) # {}
          /\ \A e \in StateRows(loc[s].call.key) :
                states[e].version # loc[s].call.expected_version)
         => /\ pc'[s] = "idle"
            /\ res'[s].op = "set_state" /\ ~res'[s].success
            /\ res'[s].expected_version = loc[s].call.expected_version
            /\ \E e \in StateRows(loc[s].call.key) :
                 res'[s].current_version = states[e].version
            /\ states' = states]_vars

\* C7 witness: a call with expected_version 0 was refused on a key stored at
\* version 1.
ConflictReturned ==
    \E s \in Slots :
       /\ res[s].op = "set_state" /\ ~res[s].success
       /\ "current_version" \in DOMAIN res[s]
       /\ res[s].current_version = 1 /\ res[s].expected_version = 0
       /\ \E e \in StateRows(res[s].call.key) : states[e].version = 1

\* C8: every successful set_state on a stored key leaves the stored version
\* strictly greater than it was before that write.
VersionStrictlyIncreases ==
    [][\A s \in Slots :
         (pc[s] = "set_update" /\ pc'[s] = "idle" /\ res'[s].success) =>
            states'[loc[s].existing].version > states[loc[s].existing].version]_vars

\* ------------------------------------------------- properties: task queue
\* C3: a PENDING task is claimed by at most one agent: a claim_task call
\* returns success only if the task was still PENDING when the call wrote its
\* assignment (so of two calls racing for one task at most one succeeds), and
\* the task is then assigned to the agent of the call that succeeded.
ClaimSucceedsOnlyOnPending ==
    [][\A s \in Slots :
         (pc[s] = "claim_update" /\ pc'[s] = "idle" /\ res'[s].success)
         => /\ tasks[loc[s].task].status = "PENDING"
            /\ tasks'[loc[s].task].assignedTo = res'[s].agent]_vars

TaskTransitions ==
    {<<"PENDING", "IN_PROGRESS">>, <<"IN_PROGRESS", "COMPLETED">>,
     <<"IN_PROGRESS", "FAILED">>, <<"IN_PROGRESS", "PENDING">>}

\* C4: a task's status changes only along PENDING -> IN_PROGRESS,
\* IN_PROGRESS -> COMPLETED, IN_PROGRESS -> FAILED and IN_PROGRESS -> PENDING;
\* a COMPLETED or FAILED task never changes status again.
TaskStatusStateMachine ==
    [][\A t \in DOMAIN tasks :
         tasks'[t].status # tasks[t].status
         => <<tasks[t].status, tasks'[t].status>> \in TaskTransitions]_vars

\* C5: the queue scan of a claim_task call returns to PENDING every
\* IN_PROGRESS task whose claim timeout has elapsed (any timeout a claim can
\* carry is at most MaxTTL).
ScanReapsExpiredTasks ==
    [][\A s \in Slots :
         (pc[s] = "claim_scan" /\ pc'[s] # "claim_scan")
         => \A t \in DOMAIN tasks :
              (/\ tasks[t].status = "IN_PROGRESS"
               /\ tasks[t].claimedAt[1] + MaxTTL < now)
              => tasks'[t].status = "PENDING"]_vars

\* All depends_on entries of task t are COMPLETED in the table tt.
AllDepsCompleted(tt, t) ==
    \A i \in DOMAIN tt[t].dependsOn : tt[tt[t].dependsOn[i]].status = "COMPLETED"

\* C6: a successful complete_task with success = true returns in
\* unblocked_tasks every PENDING task that depends on the completed task and
\* whose depends_on entries are now all COMPLETED.
CompleteReturnsUnblocked ==
    [][\A s \in Slots :
         (pc[s] = "comp_update" /\ pc'[s] = "idle" /\ loc[s].success)
         => LET unblocked == TaskCompleteResult(res'[s]).unblocked_tasks IN
            \A t \in DOMAIN tasks' :
              (/\ tasks'[t].status = "PENDING"
               /\ \E i \in DOMAIN tasks'[t].dependsOn :
                    tasks'[t].dependsOn[i] = loc[s].task_id
               /\ AllDepsCompleted(tasks', t))
              => \E j \in DOMAIN unblocked : unblocked[j] = t]_vars

\* The PENDING tasks whose every depends_on entry is COMPLETED.
Available == {t \in DOMAIN tasks :
                tasks[t].status = "PENDING" /\ AllDepsCompleted(tasks, t)}

\* C9: when a claim_task call without task_id returns, it has assigned the
\* available task of highest priority (earliest created among equals), and
\* it reports failure only when no task is available.
ClaimPicksBestAvailable ==
    [][\A s \in Slots :
         (/\ pc[s] \in {"claim_scan", "scan_deps", "claim_deps", "claim_update"}
          /\ loc[s].task_id = 0
          /\ pc'[s] = "idle")
         => IF Available = {}
            THEN ~res'[s].success
            ELSE /\ res'[s].success
                 /\ res'[s].task_id \in Available
                 /\ \A u \in Available \ {res'[s].task_id} :
                      Before(res'[s].task_id, u)]_vars


\* --------------------------------------------------- properties: gateway
GateLabels ==
    {"gate_scan", "gate_auth", "gate_denial", "gate_project", "gate_rate",
     "gate_bundle", "gate_settings", "gate_usage"}

\* The order of section "Admission Pipeline", and the same order with the
\* integrator bundle check ahead of the monthly usage check.
SpecOrder ==
    <<"anti_scan", "auth", "access_denial", "plan", "rate_limit",
      "monthly_usage", "bundle">>

BundleFirstOrder ==
    <<"anti_scan", "auth", "access_denial", "plan", "rate_limit",
      "bundle", "monthly_usage">>

\* Request r fails the named check.
Fails(r, check) ==
    CASE check = "anti_scan" -> r.scan_blocked
      [] check = "auth" -> ~r.auth_valid
      [] check = "access_denial" -> r.access_denied
      [] check = "plan" -> ~r.project_found
      [] check = "rate_limit" -> ~r.rate_ok
      [] check = "monthly_usage" -> r.usage_exceeded
      [] check = "bundle" -> r.bundle_exceeded

\* The access-denial and bundle checks concern keys the project and SSE
\* endpoints resolve; validate_request resolves none of them.
Applicable(r, check) ==
    r.endpoint = "transport" => check \notin {"access_denial", "bundle"}

FailedAt(r, order) ==
    {i \in DOMAIN order : Applicable(r, order[i]) /\ Fails(r, order[i])}

\* Every admission step of every request follows `order`: a rejection is
\* issued by the first check of `order` the request fails, and the request
\* leaves the pipeline towards its handler only if it fails no check.
AdmissionFollows(order) ==
    \A s \in Slots :
       pc[s] \in GateLabels =>
         LET F == FailedAt(loc[s].req, order) IN
         /\ (pc'[s] = "idle" /\ res'[s].op = "rejected" /\ res'[s].by # "query")
              => /\ F # {}
                 /\ \A i \in F : (\A k \in F : i <= k) => res'[s].by = order[i]
         /\ (\/ pc'[s] \in {"exec", "sse_start"}
             \/ pc'[s] = "idle" /\ res'[s].op = "admitted"
             \/ pc'[s] = "idle" /\ res'[s].op = "rejected" /\ res'[s].by = "query")
              => F = {}

TrackedExactlyOnce ==
    \A s \in Slots :
       res[s].op = "response" =>
         /\ Len(res[s].tracked) = 1
         /\ res[s].tracked[1].success = (res[s].outcome.kind = "returns")
         /\ res[s].outcome.kind = "raises"
              => res[s].tracked[1].error = res[s].outcome.error

\* C16: the event stream of an SSE tool call is start, then one of result
\* or error, then done, whether the handler returned or raised; the events
\* sent so far are always a prefix of such a stream.
SseThreeEvents ==
    \A s \in Slots :
       /\ (res[s].op = "response" /\ res[s].endpoint = "sse")
            => res[s].events \in {<<"start", "result", "done">>,
                                  <<"start", "error", "done">>}
       /\ (pc[s] \in {"exec", "track_ok", "track_fail"} /\ loc[s].req.endpoint = "sse")
            => loc[s].events = <<"start">>
       /\ pc[s] = "sse_done"
            => loc[s].events \in {<<"start", "result">>, <<"start", "error">>}

\* C16 witness: a handler raised and the stream was start, error, done.
SseErrorStreamSent ==
    \E s \in Slots :
       /\ res[s].op = "response" /\ res[s].endpoint = "sse"
       /\ res[s].outcome.kind = "raises"
       /\ res[s].events = <<"start", "error", "done">>


\* ------------------------------------------- properties: error messages
\* A message the sanitizing policy lets through.
Sanitized(message) ==
    \/ message = GenericError
    \/ \E pattern \in SafePatterns : Occurs(pattern, message)

\* C14: every error message returned for a failed tool execution, on the
\* REST, SSE and JSON-RPC surfaces, contains an allow-listed pattern or is
\* the generic message.
OnlySanitizedErrors ==
    \A s \in Slots :
       /\ (res[s].op = "response" /\ ~res[s].success) => Sanitized(res[s].error)
       /\ res[s].op = "rpc" =>
            \A k \in DOMAIN res[s].responses :
               ("code" \in DOMAIN res[s].responses[k] /\ res[s].responses[k].code = -32000)
               => Sanitized(res[s].responses[k].message)

\* ---------------------------------------------- properties: JSON-RPC
HasId(req) == req.id # 0

WebhookBoundedRetries ==
    /\ \A e \in DOMAIN events :
        Cardinality({i \in DOMAIN posts : posts[i] = e}) <= 3
    /\ \A s \in Slots :
        res[s].op = "deliver" =>
            /\ \A i \in DOMAIN res[s].waits : res[s].waits[i] \in {2, 4, 8}
            /\ \A i \in 2..Len(res[s].waits) :
                res[s].waits[i] = 2 * res[s].waits[i - 1]
    /\ (Quiet /\ events # <<>>) =>
        \A e \in DOMAIN events : events[e].status \in {"DELIVERED", "FAILED"}

\* ----------------------------------------------------- properties: documents
\* An upload or sync call has just returned or raised.
MutationEnded(s) ==
    /\ pc[s] # "idle"
    /\ pc'[s] = "idle"
    /\ res'[s].op \in {"upload", "sync"}

\* C19: a query started after an upload or sync call that wrote at least one
\* document is not answered from an index built before that write, also when
\* the call raised part-way: when such a call ends, no index built from
\* other documents than the stored ones is cached, and a query is answered
\* from the stored documents.
MutationInvalidatesIndex ==
    [][\A s \in Slots :
        /\ (MutationEnded(s) /\ index'.built) => index'.files = IndexOf(docs')
        /\ (Quiet /\ QueryIndex(s)) => res'[s].files = IndexOf(docs)]_vars

\* The upload in slot s finds its path stored with the hash of its content.
UploadOfStoredContent(s) ==
    /\ pc[s] = "up_find"
    /\ \E r \in FindFirstDoc(loc[s].path) : r.hash = Sha256(loc[s].content)

\* C20: an upload of (path, content) whose path is stored with hash
\* sha256(content) returns action unchanged, writes no document row and does
\* not invalidate the index.
UploadUnchangedIsNoOp ==
    [][\A s \in Slots :
        (UploadOfStoredContent(s) /\ pc'[s] # pc[s]) =>
            /\ pc'[s] = "idle"
            /\ res'[s].action = "unchanged"
            /\ docs' = docs
            /\ index' = index]_vars

\* An upload of stored content has returned unchanged while an index built
\* from that content is cached.
UploadUnchangedReturned ==
    /\ Quiet
    /\ index.built
    /\ \E s \in Slots :
        /\ res[s].op = "upload"
        /\ res[s].action = "unchanged"
        /\ \E f \in index.files :
            f.path = res[s].path /\ Sha256(f.content) = res[s].hash

\* ------------------------------------------ properties: task dependencies
\* C24: no task enters IN_PROGRESS while a task listed in its depends_on has
\* a status other than COMPLETED, whether it was claimed by task_id or picked
\* by the queue scan.
ClaimedOnlyWithDepsCompleted ==
    [][\A t \in DOMAIN tasks :
         (tasks[t].status # "IN_PROGRESS" /\ tasks'[t].status = "IN_PROGRESS")
         => AllDepsCompleted(tasks, t)]_vars

\* -------------------------------------- properties: shared state, creation
\* C25: set_state on a key without stored entry creates the entry at version
\* 1 and succeeds when expected_version is absent or 0; with any other
\* expected_version it fails and creates no entry.
CreateOnlyWithoutExpectation ==
    [][\A s \in Slots :
         (/\ pc[s] = "set_create"
          /\ pc'[s] = "idle"
          /\ StateRows(loc[s].call.key) = {})
         => IF loc[s].call.expected_version \in {NoVersion, 0}
            THEN /\ res'[s].success
                 /\ res'[s].version = 1
                 /\ \E e \in DOMAIN states' :
                      /\ states'[e].key = loc[s].call.key
                      /\ states'[e].version = 1
            ELSE /\ ~res'[s].success
                 /\ states' = states]_vars

\* ------------------------------------ properties: shared state, round trip
\* C26: get_state right after a successful set_state(key, v) returns a value
\* equal to v, for every JSON value v.
SetGetRoundTrip ==
    [][(/\ Quiet
        /\ GetState(1)
        /\ res[1].op = "set_state"
        /\ res[1].success
        /\ res'[1].key = res[1].key)
       => /\ res'[1].found
          /\ res'[1].value = res[1].call.value]_vars

\* ------------------------------------------- properties: claim expiry
\* C27: an acquire that finds the resource's ACTIVE claim expired (expires_at
\* earlier than now) does not fail: it marks that claim EXPIRED and creates a
\* fresh ACTIVE claim of the caller with expires_at = now + ttl.
ExpiredClaimIsReplaced ==
    [][\A s \in Slots :
         /\ (/\ pc[s] = "acq_find"
             /\ pc'[s] # "acq_find"
             /\ ActiveClaimRows(loc[s].resource) # {}
             /\ \A c \in ActiveClaimRows(loc[s].resource) :
                  claims[c].expiresAt < now)
            => pc'[s] = "acq_expire"
         /\ (pc[s] = "acq_expire" /\ pc'[s] # "acq_expire")
            => /\ claims'[loc[s].existing].status = "EXPIRED"
               /\ pc'[s] = "acq_create"
               /\ loc'[s].expires_at = now + loc[s].timeout_seconds
         /\ (pc[s] = "acq_create" /\ pc'[s] # "acq_create")
            => /\ res'[s].success
               /\ claims'[res'[s].claim_id] =
                    [agentId |-> loc[s].agent, resource |-> loc[s].resource,
                     status |-> "ACTIVE", expiresAt |-> loc[s].expires_at]]_vars

\* B's acquire has returned a fresh claim that replaces A's expired one.
ExpiredClaimTakenOver ==
    \E s \in Slots, c \in DOMAIN claims, d \in DOMAIN claims :
        /\ pc[s] = "idle"
        /\ res[s].op = "acquire"
        /\ res[s].success
        /\ res[s].claim_id = d
        /\ claims[d].status = "ACTIVE"
        /\ claims[c].status = "EXPIRED"
        /\ claims[c].resource = claims[d].resource
        /\ claims[c].agentId # claims[d].agentId
        /\ claims[c].expiresAt < claims[d].expiresAt

\* ------------------------------------ properties: tasks of departed agents
\* Task t is IN_PROGRESS and the agent row it is assigned to is inactive.
Orphaned(t) ==
    /\ t \in DOMAIN tasks
    /\ tasks[t].status = "IN_PROGRESS"
    /\ ~agents[tasks[t].assignedTo].isActive

\* Task t is COMPLETED, FAILED or PENDING.
Recovered(t) ==
    /\ t \in DOMAIN tasks
    /\ tasks[t].status \in {"COMPLETED", "FAILED", "PENDING"}

\* C28: a task does not stay IN_PROGRESS with an assignee that has left the
\* swarm: it reaches COMPLETED, FAILED or PENDING again.
OrphanedTaskRecovers ==
    \A t \in 1..MaxTasks : Orphaned(t) ~> Recovered(t)

\* No coordinator operation changes a task whose assignee has left: the
\* operations that write a task are claim_task, on PENDING rows, and
\* complete_task, for an active assignee; no operation reactivates an agent
\* row.
OrphanedTaskIsStuck ==
    [][\A t \in DOMAIN tasks : Orphaned(t) => Orphaned(t)']_vars

\* --------------------------------------- properties: delivered webhooks
\* The POSTs of event e in the sequence p.
PostsOf(p, e) == {i \in DOMAIN p : p[i] = e}

\* C29: once a webhook event is DELIVERED it is not POSTed again and its
\* status does not change, also when retry_failed_webhooks started a second
\* delivery while the first one was waiting in its backoff.
DeliveredIsFinal ==
    [][\A e \in DOMAIN events :
         events[e].status = "DELIVERED"
         => /\ events'[e].status = "DELIVERED"
            /\ PostsOf(posts', e) = PostsOf(posts, e)]_vars

\* ------------------------------------------ properties: database connection
\* The slots inside _create_client.
Creating == {s \in Slots : pc[s] \in {"db_connect", "db_sleep"}}

\* get_db returns to the caller of slot s.
GetDbReturns(s) ==
    /\ pc[s] \in {"db_check", "db_connect"}
    /\ pc'[s] = "idle"

\* C30: get_db hands out a client only if it has just answered the liveness
\* query or was just connected; a client that failed the liveness query is
\* dropped and a new connection is made, with at most 3 attempts and delays
\* of 1 s and 2 s between them before the error is raised; and no two
\* callers are creating a client at the same time.
GetDbLiveOrReconnected ==
    /\ [](Cardinality(Creating) <= 1)
    /\ [][\A s \in Slots :
            /\ (GetDbReturns(s) /\ "client" \in DOMAIN res'[s])
               => /\ res'[s].client = client'.id
                  /\ \/ pc[s] = "db_check" /\ client.connected /\ client' = client
                     \/ pc[s] = "db_connect" /\ client'.connected
            /\ (pc[s] = "db_check" /\ ~client.connected /\ pc'[s] # pc[s])
               => pc'[s] = "db_disconnect"
            /\ (pc[s] = "db_disconnect" /\ pc'[s] # pc[s])
               => client' = NoClient /\ pc'[s] = "db_connect"
            /\ (pc[s] = "db_connect" /\ pc'[s] # pc[s])
               => /\ loc[s].attempt < 3
                  /\ Len(loc[s].delays) = loc[s].attempt
                  /\ \A i \in DOMAIN loc[s].delays : loc[s].delays[i] = 2 ^ (i - 1)
            /\ (GetDbReturns(s) /\ "raised" \in DOMAIN res'[s])
               => res'[s].attempts = 3 /\ res'[s].delays = <<1, 2>>]_vars

\* A caller found the client stale and got a new one at the second attempt
\* to connect.
StaleClientReplaced ==
    \E s \in Slots :
        /\ pc[s] = "idle"
        /\ res[s].op = "get_db"
        /\ "client" \in DOMAIN res[s]
        /\ res[s].stale
        /\ res[s].delays = <<1>>
        /\ client.id = res[s].client

\* --------------------------------------------------- properties: scoring
\* The rankings hybrid_search has returned.
Rankings == {res[s].ranking : s \in {u \in Slots : res[u].op = "hybrid_search"}}

\* C21: the relevance scores of a returned ranking are non-increasing: rank
\* 1 has the score 100 (1000 tenths) and no entry has a higher score than
\* the entry before it.
RelevanceNonIncreasing ==
    \A r \in Rankings :
        /\ r # <<>> => r[1].score = 1000
        /\ \A i \in 1..(Len(r) - 1) : r[i].score >= r[i + 1].score

\* A ranking of more than four sections has been returned whose scores fall
\* from 100 at rank 1 to less at rank 2 and to less again at the last rank.
LongRankingReturned ==
    \E r \in Rankings :
        /\ Len(r) > 4
        /\ r[1].score = 1000
        /\ r[2].score < r[1].score
        /\ r[Len(r)].score < r[2].score

\* C22: two calls of hybrid_search with the same keyword scores, semantic
\* scores and query return the same ranking: the same section ids in the
\* same order with the same scores.
SameInputsSameRanking ==
    \A s, u \in Slots :
        (/\ res[s].op = "hybrid_search"
         /\ res[u].op = "hybrid_search"
         /\ res[s].query = res[u].query
         /\ res[s].keyword_scores = res[u].keyword_scores
         /\ res[s].semantic_scores = res[u].semantic_scores)
        => res[s].ranking = res[u].ranking

\* C23: for the query "pricing tiers" over the project with the sections
\* Pricing and Architecture, Pricing is ranked first with the score 100 and
\* Architecture has a score of at most 94.
PricingFirstArchitectureBelow ==
    \A s \in Slots :
        (/\ res[s].op = "hybrid_search"
         /\ res[s].corpus = "pricing"
         /\ res[s].query = "pricing tiers")
        => /\ res[s].ranking # <<>>
           /\ res[s].ranking[1] = [sid |-> Pricing, score |-> 1000]
           /\ \A i \in DOMAIN res[s].ranking :
                 res[s].ranking[i].sid = Architecture
                    => res[s].ranking[i].score <= 940

====
